---- MODULE Spec2Model ----
(***************************************************************************)
(* Share-payload protocol of airgap-json-formatter (src/src/share.rs and   *)
(* the wasm exports of src/src/lib.rs).                                    *)
(*                                                                         *)
(* Byte strings and Rust strings are sequences of bytes 0..255 (a &str is  *)
(* its UTF-8 bytes, str::len is the byte length).  u64 values are four     *)
(* 16-bit limbs, most significant first, so that the full 64-bit range is  *)
(* representable.  Option<T> is a sequence of length 0 (None) or 1 (Some). *)
(* Result<T, ShareError> is [ok |-> TRUE, val |-> v] or                    *)
(* [ok |-> FALSE, err |-> e] with e the name of the ShareError variant.    *)
(*                                                                         *)
(* The external crates are modelled by functions with the same interface:  *)
(*  - base64 (URL_SAFE_NO_PAD) is modelled exactly;                        *)
(*  - flate2 DEFLATE is modelled on the stored-block subset of RFC 1951;   *)
(*  - AES-256-GCM is a stand-in stream mask with a 16-byte tag that binds  *)
(*    key, nonce and ciphertext (an ideal AEAD on the model's domain);     *)
(*  - PBKDF2-HMAC-SHA256 is a deterministic stand-in that is injective on  *)
(*    (passphrase, salt) for the passphrases of the model;                 *)
(*  - getrandom is an input: the number of the draw, 0 when it fails.      *)
(***************************************************************************)
EXTENDS Integers, Sequences, FiniteSets, TLC

\* ------------------------------------------------------------------------
\* Constants of share.rs
\* ------------------------------------------------------------------------
VERSION_RANDOM_KEY == 1
VERSION_PASSPHRASE == 2
SALT_LENGTH == 16
NONCE_LENGTH == 12
HEADER_LENGTH == 9
EXPIRATION_SECS == 300
\* variant: the limit is one character short
MAX_PAYLOAD_CHARS_short == 6000 - 1

MAX_PAYLOAD_CHARS == 6000
MAX_DECOMPRESSED_SIZE == 10485760
KEY_LENGTH == 32
TAG_LENGTH == 16
CHUNK_SIZE == 8192

\* ------------------------------------------------------------------------
\* Result, Option and byte helpers
\* ------------------------------------------------------------------------
Ok(v) == [ok |-> TRUE, val |-> v]
Err(e) == [ok |-> FALSE, err |-> e]

None == << >>
Some(v) == << v >>
IsSome(o) == Len(o) = 1

ShareError == {"CompressionFailed", "EncryptionFailed", "PayloadTooLarge",
               "EmptyInput", "KeyDerivationFailed", "Expired",
               "InvalidPayload", "DecryptionFailed", "InvalidBase64"}

\* impl fmt::Display for ShareError: the fixed message of each variant
Display(e) ==
    CASE e = "CompressionFailed" -> "Compression failed"
      [] e = "EncryptionFailed" -> "Encryption failed"
      [] e = "PayloadTooLarge" -> "Payload too large (max 6000 chars encoded)"
      [] e = "EmptyInput" -> "Input is empty"
      [] e = "KeyDerivationFailed" -> "Key derivation failed"
      [] e = "Expired"
           -> "This shared link has expired (links are valid for 5 minutes)"
      [] e = "InvalidPayload" -> "Invalid share link format"
      [] e = "DecryptionFailed"
           -> "Unable to decrypt - the link may be corrupted"
      [] e = "InvalidBase64" -> "Invalid share link encoding"

\* variant: the encoder-side variants get codes of their own
error_code_by_name(e) ==
    CASE e = "Expired" -> "expired"
      [] e = "InvalidPayload" -> "invalid_payload"
      [] e = "DecryptionFailed" -> "decryption_failed"
      [] e = "InvalidBase64" -> "invalid_base64"
      [] e = "CompressionFailed" -> "compression_failed"
      [] e = "EncryptionFailed" -> "encryption_failed"
      [] e = "PayloadTooLarge" -> "payload_too_large"
      [] e = "EmptyInput" -> "empty_input"
      [] e = "KeyDerivationFailed" -> "key_derivation_failed"

\* ShareError::error_code
error_code(e) ==
    CASE e = "Expired" -> "expired"
      [] e = "InvalidPayload" -> "invalid_payload"
      [] e = "DecryptionFailed" -> "decryption_failed"
      [] e = "InvalidBase64" -> "invalid_base64"
      [] e = "CompressionFailed" -> "invalid_payload"
      [] e = "EncryptionFailed" -> "decryption_failed"
      [] e = "PayloadTooLarge" -> "invalid_payload"
      [] e = "EmptyInput" -> "invalid_payload"
      [] e = "KeyDerivationFailed" -> "decryption_failed"

Pow2(k) == CASE k = 0 -> 1 [] k = 1 -> 2 [] k = 2 -> 4 [] k = 3 -> 8
             [] k = 4 -> 16 [] k = 5 -> 32 [] k = 6 -> 64 [] k = 7 -> 128

\* sum of q[lo..hi], by halving so that the evaluation depth stays small
RECURSIVE SumRange(_, _, _)
SumRange(q, lo, hi) ==
    IF lo > hi THEN 0
    ELSE IF lo = hi THEN q[lo]
    ELSE LET mid == (lo + hi) \div 2
         IN  SumRange(q, lo, mid) + SumRange(q, mid + 1, hi)

SumBytes(q) == SumRange(q, 1, Len(q))

Take(q, n) == SubSeq(q, 1, n)
Drop(q, n) == SubSeq(q, n + 1, Len(q))

\* A panic is not a value of Result: it unwinds through every caller.  It is
\* modelled as a failure outside ShareError, which the propagation of the
\* callers passes on as it is.
Panic == [ok |-> FALSE, err |-> "panic"]

\* slice::split_at(mid): panics when mid > len
split_at(q, mid) ==
    IF mid > Len(q) THEN Panic ELSE Ok(<< Take(q, mid), Drop(q, mid) >>)

\* Key::from_slice / Nonce::from_slice (GenericArray::from_slice): panics
\* when the slice has not the length of the array
from_slice(q, n) == IF Len(q) # n THEN Panic ELSE Ok(q)

\* data[lo..hi] with 0-based lo, exclusive hi: panics when hi > len
index_range(q, lo, hi) ==
    IF hi > Len(q) THEN Panic ELSE Ok(SubSeq(q, lo + 1, hi))

\* Option::unwrap: panics on None
unwrap(o) == IF o = None THEN Panic ELSE Ok(o[1])

\* ------------------------------------------------------------------------
\* u64 as four 16-bit limbs, big-endian
\* ------------------------------------------------------------------------
U64(n) == << 0, 0, n \div 65536, n % 65536 >>

U64Less(a, b) ==
    \E i \in 1..4 : a[i] < b[i] /\ \A j \in 1..(i - 1) : a[j] = b[j]

\* a - b for a >= b, limb by limb with borrow
U64Borrow(a, b, i) ==
    \E k \in (i + 1)..4 :
        a[k] < b[k] /\ \A j \in (i + 1)..(k - 1) : a[j] = b[j]

U64Sub(a, b) ==
    [i \in 1..4 |->
        LET br == IF U64Borrow(a, b, i) THEN 1 ELSE 0
        IN  (a[i] - b[i] - br + 65536) % 65536]

\* variant: the subtraction wraps around
saturating_sub_wrapping(a, b) == U64Sub(a, b)

saturating_sub(a, b) == IF U64Less(a, b) THEN U64(0) ELSE U64Sub(a, b)

\* variant: the least significant byte comes first
to_be_bytes_reversed(t) ==
    [i \in 1..8 |-> IF i % 2 = 1 THEN t[4 - (i \div 2)] % 256
                                 ELSE t[5 - (i \div 2)] \div 256]

\* u64::to_be_bytes / u64::from_be_bytes
to_be_bytes(t) ==
    [i \in 1..8 |-> IF i % 2 = 1 THEN t[(i + 1) \div 2] \div 256
                                 ELSE t[i \div 2] % 256]

from_be_bytes(b) == [i \in 1..4 |-> b[2 * i - 1] * 256 + b[2 * i]]

\* ------------------------------------------------------------------------
\* base64 crate, URL_SAFE_NO_PAD engine
\* ------------------------------------------------------------------------
\* variant: the standard alphabet, '+' and '/' for 62 and 63
B64Char_standard(v) ==
    IF v < 26 THEN 65 + v
    ELSE IF v < 52 THEN 97 + (v - 26)
    ELSE IF v < 62 THEN 48 + (v - 52)
    ELSE IF v = 62 THEN 43
    ELSE 47

B64Char(v) ==
    IF v < 26 THEN 65 + v
    ELSE IF v < 52 THEN 97 + (v - 26)
    ELSE IF v < 62 THEN 48 + (v - 52)
    ELSE IF v = 62 THEN 45
    ELSE 95

\* value of a symbol of the URL-safe alphabet, -1 for any other byte
B64Val(c) ==
    IF c >= 65 /\ c <= 90 THEN c - 65
    ELSE IF c >= 97 /\ c <= 122 THEN c - 97 + 26
    ELSE IF c >= 48 /\ c <= 57 THEN c - 48 + 52
    ELSE IF c = 45 THEN 62
    ELSE IF c = 95 THEN 63
    ELSE -1

B64EncodedLen(n) == (n \div 3) * 4 + (IF n % 3 = 0 THEN 0 ELSE (n % 3) + 1)

encode_base64url(data) ==
    LET n == Len(data)
        At(k) == IF k <= n THEN data[k] ELSE 0
    IN  [j \in 1..B64EncodedLen(n) |->
            LET g == (j - 1) \div 4
                r == (j - 1) % 4
                b0 == At(3 * g + 1)
                b1 == At(3 * g + 2)
                b2 == At(3 * g + 3)
            IN  B64Char(CASE r = 0 -> b0 \div 4
                          [] r = 1 -> (b0 % 4) * 16 + (b1 \div 16)
                          [] r = 2 -> (b1 % 16) * 4 + (b2 \div 64)
                          [] r = 3 -> b2 % 64)]

B64DecodedLen(m) == (m \div 4) * 3 + (IF m % 4 = 0 THEN 0 ELSE (m % 4) - 1)

\* no padding accepted, no trailing bits accepted, length 1 mod 4 rejected
B64WellFormed(input) ==
    LET m == Len(input)
    IN  /\ \A j \in 1..m : B64Val(input[j]) >= 0
        /\ m % 4 # 1
        /\ (m % 4 = 2) => (B64Val(input[m]) % 16 = 0)
        /\ (m % 4 = 3) => (B64Val(input[m]) % 4 = 0)

\* variant: a forgiving decoder, bytes outside the alphabet count as 'A'
decode_base64url_lenient(input) ==
    LET m == Len(input)
        V(k) == IF k <= m /\ B64Val(input[k]) >= 0 THEN B64Val(input[k]) ELSE 0
    IN  Ok([i \in 1..B64DecodedLen(m) |->
               LET g == (i - 1) \div 3
                   r == (i - 1) % 3
                   v0 == V(4 * g + 1)
                   v1 == V(4 * g + 2)
                   v2 == V(4 * g + 3)
                   v3 == V(4 * g + 4)
               IN  CASE r = 0 -> v0 * 4 + (v1 \div 16)
                     [] r = 1 -> (v1 % 16) * 16 + (v2 \div 4)
                     [] r = 2 -> (v2 % 4) * 64 + v3])

decode_base64url(input) ==
    IF ~B64WellFormed(input) THEN Err("InvalidBase64")
    ELSE LET m == Len(input)
             V(k) == IF k <= m THEN B64Val(input[k]) ELSE 0
         IN  Ok([i \in 1..B64DecodedLen(m) |->
                    LET g == (i - 1) \div 3
                        r == (i - 1) % 3
                        v0 == V(4 * g + 1)
                        v1 == V(4 * g + 2)
                        v2 == V(4 * g + 3)
                        v3 == V(4 * g + 4)
                    IN  CASE r = 0 -> v0 * 4 + (v1 \div 16)
                          [] r = 1 -> (v1 % 16) * 16 + (v2 \div 4)
                          [] r = 2 -> (v2 % 4) * 64 + v3])

\* ------------------------------------------------------------------------
\* String::from_utf8 (RFC 3629: no overlong forms, no surrogates, at most
\* U+10FFFF)
\* ------------------------------------------------------------------------
IsCont(b) == b >= 128 /\ b <= 191

\* length of the sequence a lead byte announces, 0 if b cannot lead
Utf8Width(b) ==
    IF b <= 127 THEN 1
    ELSE IF b >= 194 /\ b <= 223 THEN 2
    ELSE IF b >= 224 /\ b <= 239 THEN 3
    ELSE IF b >= 240 /\ b <= 244 THEN 4
    ELSE 0

\* range of the second byte, which excludes overlongs and surrogates
Utf8SecondOk(lead, b) ==
    CASE lead = 224 -> b >= 160 /\ b <= 191
      [] lead = 237 -> b >= 128 /\ b <= 159
      [] lead = 240 -> b >= 144 /\ b <= 191
      [] lead = 244 -> b >= 128 /\ b <= 143
      [] OTHER -> IsCont(b)

IsValidUtf8(s) ==
    LET n == Len(s)
    IN  \A i \in 1..n :
            IF IsCont(s[i])
            THEN \E d \in 1..3 :
                    /\ i - d >= 1
                    /\ Utf8Width(s[i - d]) > d
                    /\ \A k \in (i - d + 1)..(i - 1) : IsCont(s[k])
            ELSE LET w == Utf8Width(s[i])
                 IN  /\ w > 0
                     /\ i + w - 1 <= n
                     /\ \A k \in (i + 1)..(i + w - 1) : IsCont(s[k])
                     /\ (w > 1) => Utf8SecondOk(s[i], s[i + 1])

\* ------------------------------------------------------------------------
\* flate2: DeflateEncoder / DeflateDecoder on the stored-block subset of
\* RFC 1951.  A block is a header byte (bit 0 BFINAL, bits 1-2 BTYPE), and
\* for BTYPE = 00 LEN and NLEN (little-endian, NLEN = not LEN) followed by
\* LEN literal bytes.
\* ------------------------------------------------------------------------
MAX_STORED == 65535

StoredBlock(final, data) ==
    LET n == Len(data)
    IN  << final, n % 256, n \div 256, 255 - (n % 256), 255 - (n \div 256) >>
            \o data

RECURSIVE Deflate(_)
Deflate(data) ==
    IF Len(data) <= MAX_STORED THEN StoredBlock(1, data)
    ELSE StoredBlock(0, Take(data, MAX_STORED)) \o Deflate(Drop(data, MAX_STORED))

\* Outcome of reading a DeflateDecoder to its end: the bytes produced, or
\* corrupt.  A stream that ends early is not an error for the reader: it
\* yields the bytes decoded so far.  BTYPE = 11 is reserved and corrupt.
\* Huffman blocks (BTYPE 01, 10) are outside the modelled subset: no stream
\* of the model starts a block with one (InflateModelled).
RECURSIVE InflateFrom(_, _, _)
InflateFrom(s, pos, out) ==
    IF pos > Len(s) THEN Ok(out)
    ELSE LET h == s[pos]
             bfinal == h % 2
             btype == (h \div 2) % 4
         IN  IF btype # 0 THEN Err("corrupt")
             ELSE IF pos + 4 > Len(s) THEN Ok(out)
             ELSE LET len == s[pos + 1] + 256 * s[pos + 2]
                      nlen == s[pos + 3] + 256 * s[pos + 4]
                      avail == Len(s) - (pos + 4)
                  IN  IF len + nlen # 65535 THEN Err("corrupt")
                      ELSE IF avail < len
                           THEN Ok(out \o SubSeq(s, pos + 5, Len(s)))
                      ELSE IF bfinal = 1
                           THEN Ok(out \o SubSeq(s, pos + 5, pos + 4 + len))
                      ELSE InflateFrom(s, pos + 5 + len,
                                       out \o SubSeq(s, pos + 5, pos + 4 + len))

Inflate(s) == InflateFrom(s, 1, << >>)

RECURSIVE InflateModelledFrom(_, _)
InflateModelledFrom(s, pos) ==
    IF pos > Len(s) THEN TRUE
    ELSE LET h == s[pos]
             btype == (h \div 2) % 4
         IN  IF btype = 3 THEN TRUE
             ELSE IF btype # 0 THEN FALSE
             ELSE IF pos + 4 > Len(s) THEN TRUE
             ELSE LET len == s[pos + 1] + 256 * s[pos + 2]
                      nlen == s[pos + 3] + 256 * s[pos + 4]
                  IN  IF len + nlen # 65535 \/ Len(s) - (pos + 4) < len
                         \/ h % 2 = 1
                      THEN TRUE
                      ELSE InflateModelledFrom(s, pos + 5 + len)

InflateModelled(s) == InflateModelledFrom(s, 1)

\* ------------------------------------------------------------------------
\* pbkdf2_hmac::<Sha256>: deterministic, 32 bytes out, different for
\* different (passphrase, salt) of the model (passphrases of at most 16
\* bytes)
\* ------------------------------------------------------------------------
pbkdf2_hmac(passphrase, salt) ==
    LET ps == SumBytes(passphrase)
        ss == SumBytes(salt)
    IN  [i \in 1..KEY_LENGTH |->
            IF i <= 16
            THEN ((IF i <= Len(salt) THEN salt[i] ELSE 0)
                    + 7 * Len(passphrase) + ps + 92) % 256
            ELSE ((IF i - 16 <= Len(passphrase) THEN passphrase[i - 16] ELSE 0)
                    + 13 * i + ss + 54) % 256]

\* ------------------------------------------------------------------------
\* aes_gcm: Aes256Gcm::encrypt / decrypt.  The ciphertext has the length of
\* the plaintext and is followed by a 16-byte tag; decrypt recomputes the
\* tag over (key, nonce, ciphertext) and fails on any difference.
\* ------------------------------------------------------------------------
Keystream(key, nonce) == (SumBytes(key) + 3 * SumBytes(nonce) + 7) % 256

GcmTag(key, nonce, ct) ==
    LET s == SumBytes(ct)
        n == Len(ct)
    IN  [i \in 1..TAG_LENGTH |->
            IF i <= 8
            THEN (key[i] + 3 * key[i + 8] + 5 * key[i + 16] + 7 * key[i + 24]
                    + 54) % 256
            ELSE IF i <= 12
            THEN (nonce[i - 8] + 3 * nonce[i - 4] + 5 * nonce[i] + 92) % 256
            ELSE CASE i = 13 -> n % 256
                   [] i = 14 -> (n \div 256) % 256
                   [] i = 15 -> s % 256
                   [] i = 16 -> (s \div 256) % 256]

Aes256Gcm_encrypt(key, nonce, data) ==
    LET ks == Keystream(key, nonce)
        ct == [i \in 1..Len(data) |-> (data[i] + ks + 31 * i) % 256]
    IN  ct \o GcmTag(key, nonce, ct)

GcmUnmask(key, nonce, ct) ==
    LET ks == Keystream(key, nonce)
    IN  [i \in 1..Len(ct) |-> (ct[i] - ((ks + 31 * i) % 256) + 256) % 256]

Aes256Gcm_decrypt(key, nonce, encrypted) ==
    IF Len(encrypted) < TAG_LENGTH THEN Err("aead")
    ELSE LET n == Len(encrypted) - TAG_LENGTH
             ct == Take(encrypted, n)
             tag == Drop(encrypted, n)
         IN  IF tag # GcmTag(key, nonce, ct) THEN Err("aead")
             ELSE Ok(GcmUnmask(key, nonce, ct))

\* ------------------------------------------------------------------------
\* getrandom::getrandom(&mut buf): the draw is an input of the call, the
\* bytes written into buf or RngFail when the source reports an error
\* ------------------------------------------------------------------------
RngFail == 0

\* the n bytes the source writes for the draw numbered seed
RandomBytes(n, seed) == [i \in 1..n |-> (seed * 37 + i * 101) % 256]

\* variant: the source returns the same bytes on every call
getrandom_constant(n, seed) ==
    IF seed = RngFail THEN Err("rng") ELSE Ok(RandomBytes(n, 1))

\* getrandom::getrandom(&mut buf) with buf of n bytes: the draw is an input
\* of the call, RngFail when the source reports an error
getrandom(n, seed) ==
    IF seed = RngFail THEN Err("rng") ELSE Ok(RandomBytes(n, seed))

\* ------------------------------------------------------------------------
\* Encoding functions of share.rs.  clock is the value get_unix_timestamp()
\* returns to the call; rng is the sequence of draws the call can make, in
\* the order it makes them.
\* ------------------------------------------------------------------------
get_unix_timestamp(clock) == clock

\* variant: the frame always carries the random-key version byte
compress_with_header_fixed_version(json, version, clock) ==
    LET timestamp == get_unix_timestamp(clock)
        header == << VERSION_RANDOM_KEY >> \o to_be_bytes(timestamp) \o json
    IN  Ok(Deflate(header))

compress_with_header(json, version, clock) ==
    LET timestamp == get_unix_timestamp(clock)
        header == << version >> \o to_be_bytes(timestamp) \o json
    IN  Ok(Deflate(header))

\* variant: the key is derived from the salt alone
derive_key_from_passphrase_salt_only(passphrase, salt) ==
    Ok(pbkdf2_hmac(<< >>, salt))

derive_key_from_passphrase(passphrase, salt) == Ok(pbkdf2_hmac(passphrase, salt))

\* variant: the nonce is appended to the ciphertext instead of put before it
encrypt_payload_nonce_last(data, key_bytes, seed) ==
    LET nonce_bytes == getrandom(NONCE_LENGTH, seed)
    IN  IF ~nonce_bytes.ok THEN Err("EncryptionFailed")
        ELSE Ok(Aes256Gcm_encrypt(key_bytes, nonce_bytes.val, data)
                  \o nonce_bytes.val)

encrypt_payload(data, key_bytes, seed) ==
    LET nonce_bytes == getrandom(NONCE_LENGTH, seed)
    IN  IF ~nonce_bytes.ok THEN Err("EncryptionFailed")
        ELSE Ok(nonce_bytes.val
                  \o Aes256Gcm_encrypt(key_bytes, nonce_bytes.val, data))

generate_random_key(seed) ==
    LET key == getrandom(KEY_LENGTH, seed)
    IN  IF ~key.ok THEN Err("EncryptionFailed") ELSE Ok(key.val)

SharePayload(data, key) == [data |-> data, key |-> key]

\* variant: the empty-input check is missing
create_share_payload_unchecked(json, passphrase, clock, rng) ==
    LET is_passphrase == IsSome(passphrase) /\ passphrase[1] # << >>
        version == IF is_passphrase THEN VERSION_PASSPHRASE
                                    ELSE VERSION_RANDOM_KEY
        compressed == compress_with_header(json, version, clock)
    IN  IF ~compressed.ok THEN compressed
        ELSE IF is_passphrase
        THEN LET unwrapped == unwrap(passphrase)
                 salt == getrandom(SALT_LENGTH, rng[1])
             IN  IF ~unwrapped.ok THEN unwrapped
                 ELSE IF ~salt.ok THEN Err("EncryptionFailed")
                 ELSE
                 LET key == derive_key_from_passphrase(unwrapped.val, salt.val)
                 IN  IF ~key.ok THEN key
                     ELSE
                     LET encrypted == encrypt_payload(compressed.val, key.val,
                                                      rng[2])
                     IN  IF ~encrypted.ok THEN encrypted
                         ELSE
                         LET payload == salt.val \o encrypted.val
                             data == encode_base64url(payload)
                         IN  IF Len(data) > MAX_PAYLOAD_CHARS
                             THEN Err("PayloadTooLarge")
                             ELSE Ok(SharePayload(data, None))
        ELSE LET key_bytes == generate_random_key(rng[1])
             IN  IF ~key_bytes.ok THEN key_bytes
                 ELSE
                 LET encrypted == encrypt_payload(compressed.val, key_bytes.val,
                                                  rng[2])
                 IN  IF ~encrypted.ok THEN encrypted
                     ELSE
                     LET data == encode_base64url(encrypted.val)
                     IN  IF Len(data) > MAX_PAYLOAD_CHARS
                         THEN Err("PayloadTooLarge")
                         ELSE Ok(SharePayload(data,
                                    Some(encode_base64url(key_bytes.val))))

\* variant: a failed draw of the salt is reported as KeyDerivationFailed
create_share_payload_salt_error(json, passphrase, clock, rng) ==
    IF json = << >> THEN Err("EmptyInput")
    ELSE
    LET is_passphrase == IsSome(passphrase) /\ passphrase[1] # << >>
        version == IF is_passphrase THEN VERSION_PASSPHRASE
                                    ELSE VERSION_RANDOM_KEY
        compressed == compress_with_header(json, version, clock)
    IN  IF ~compressed.ok THEN compressed
        ELSE IF is_passphrase
        THEN LET unwrapped == unwrap(passphrase)
                 salt == getrandom(SALT_LENGTH, rng[1])
             IN  IF ~unwrapped.ok THEN unwrapped
                 ELSE IF ~salt.ok THEN Err("KeyDerivationFailed")
                 ELSE
                 LET key == derive_key_from_passphrase(unwrapped.val, salt.val)
                 IN  IF ~key.ok THEN key
                     ELSE
                     LET encrypted == encrypt_payload(compressed.val, key.val,
                                                      rng[2])
                     IN  IF ~encrypted.ok THEN encrypted
                         ELSE
                         LET payload == salt.val \o encrypted.val
                             data == encode_base64url(payload)
                         IN  IF Len(data) > MAX_PAYLOAD_CHARS
                             THEN Err("PayloadTooLarge")
                             ELSE Ok(SharePayload(data, None))
        ELSE LET key_bytes == generate_random_key(rng[1])
             IN  IF ~key_bytes.ok THEN key_bytes
                 ELSE
                 LET encrypted == encrypt_payload(compressed.val, key_bytes.val,
                                                  rng[2])
                 IN  IF ~encrypted.ok THEN encrypted
                     ELSE
                     LET data == encode_base64url(encrypted.val)
                     IN  IF Len(data) > MAX_PAYLOAD_CHARS
                         THEN Err("PayloadTooLarge")
                         ELSE Ok(SharePayload(data,
                                    Some(encode_base64url(key_bytes.val))))

create_share_payload(json, passphrase, clock, rng) ==
    IF json = << >> THEN Err("EmptyInput")
    ELSE
    LET is_passphrase == IsSome(passphrase) /\ passphrase[1] # << >>
        version == IF is_passphrase THEN VERSION_PASSPHRASE
                                    ELSE VERSION_RANDOM_KEY
        compressed == compress_with_header(json, version, clock)
    IN  IF ~compressed.ok THEN compressed
        ELSE IF is_passphrase
        THEN LET unwrapped == unwrap(passphrase)
                 salt == getrandom(SALT_LENGTH, rng[1])
             IN  IF ~unwrapped.ok THEN unwrapped
                 ELSE IF ~salt.ok THEN Err("EncryptionFailed")
                 ELSE
                 LET key == derive_key_from_passphrase(unwrapped.val, salt.val)
                 IN  IF ~key.ok THEN key
                     ELSE
                     LET encrypted == encrypt_payload(compressed.val, key.val,
                                                      rng[2])
                     IN  IF ~encrypted.ok THEN encrypted
                         ELSE
                         LET payload == salt.val \o encrypted.val
                             data == encode_base64url(payload)
                         IN  IF Len(data) > MAX_PAYLOAD_CHARS
                             THEN Err("PayloadTooLarge")
                             ELSE Ok(SharePayload(data, None))
        ELSE LET key_bytes == generate_random_key(rng[1])
             IN  IF ~key_bytes.ok THEN key_bytes
                 ELSE
                 LET encrypted == encrypt_payload(compressed.val, key_bytes.val,
                                                  rng[2])
                 IN  IF ~encrypted.ok THEN encrypted
                     ELSE
                     LET data == encode_base64url(encrypted.val)
                     IN  IF Len(data) > MAX_PAYLOAD_CHARS
                         THEN Err("PayloadTooLarge")
                         ELSE Ok(SharePayload(data,
                                    Some(encode_base64url(key_bytes.val))))

\* ------------------------------------------------------------------------
\* Decoding functions of share.rs
\* ------------------------------------------------------------------------
\* variant: the plaintext is used although the tag was not verified
decrypt_payload_unverified(ciphertext, key_bytes) ==
    IF Len(key_bytes) # 32 THEN Err("InvalidPayload")
    ELSE IF Len(ciphertext) < NONCE_LENGTH + 1 THEN Err("InvalidPayload")
    ELSE LET parts == split_at(ciphertext, NONCE_LENGTH)
         IN  IF ~parts.ok THEN parts
             ELSE
             LET nonce == from_slice(parts.val[1], NONCE_LENGTH)
                 key == from_slice(key_bytes, KEY_LENGTH)
                 encrypted == parts.val[2]
             IN  IF ~nonce.ok THEN nonce
                 ELSE IF ~key.ok THEN key
                 ELSE IF Len(encrypted) < TAG_LENGTH
                 THEN Err("DecryptionFailed")
                 ELSE Ok(GcmUnmask(key.val, nonce.val,
                             Take(encrypted, Len(encrypted) - TAG_LENGTH)))

\* variant: the length of the ciphertext is not checked before the split
decrypt_payload_unguarded(ciphertext, key_bytes) ==
    IF Len(key_bytes) # 32 THEN Err("InvalidPayload")
    ELSE LET parts == split_at(ciphertext, NONCE_LENGTH)
         IN  IF ~parts.ok THEN parts
             ELSE
             LET nonce == from_slice(parts.val[1], NONCE_LENGTH)
                 key == from_slice(key_bytes, KEY_LENGTH)
             IN  IF ~nonce.ok THEN nonce
                 ELSE IF ~key.ok THEN key
                 ELSE
                 LET plain == Aes256Gcm_decrypt(key.val, nonce.val,
                                                parts.val[2])
                 IN  IF ~plain.ok THEN Err("DecryptionFailed")
                     ELSE Ok(plain.val)

\* variant: a ciphertext that is a nonce and nothing else is let through
decrypt_payload_short_minimum(ciphertext, key_bytes) ==
    IF Len(key_bytes) # 32 THEN Err("InvalidPayload")
    ELSE IF Len(ciphertext) < NONCE_LENGTH THEN Err("InvalidPayload")
    ELSE LET parts == split_at(ciphertext, NONCE_LENGTH)
         IN  IF ~parts.ok THEN parts
             ELSE
             LET nonce == from_slice(parts.val[1], NONCE_LENGTH)
                 key == from_slice(key_bytes, KEY_LENGTH)
             IN  IF ~nonce.ok THEN nonce
                 ELSE IF ~key.ok THEN key
                 ELSE
                 LET plain == Aes256Gcm_decrypt(key.val, nonce.val,
                                                parts.val[2])
                 IN  IF ~plain.ok THEN Err("DecryptionFailed")
                     ELSE Ok(plain.val)

\* variant: a failed authentication is reported as InvalidPayload
decrypt_payload_reports_invalid(ciphertext, key_bytes) ==
    IF Len(key_bytes) # 32 THEN Err("InvalidPayload")
    ELSE IF Len(ciphertext) < NONCE_LENGTH + 1 THEN Err("InvalidPayload")
    ELSE LET parts == split_at(ciphertext, NONCE_LENGTH)
         IN  IF ~parts.ok THEN parts
             ELSE
             LET nonce == from_slice(parts.val[1], NONCE_LENGTH)
                 key == from_slice(key_bytes, KEY_LENGTH)
             IN  IF ~nonce.ok THEN nonce
                 ELSE IF ~key.ok THEN key
                 ELSE
                 LET plain == Aes256Gcm_decrypt(key.val, nonce.val,
                                                parts.val[2])
                 IN  IF ~plain.ok THEN Err("InvalidPayload")
                     ELSE Ok(plain.val)

decrypt_payload(ciphertext, key_bytes) ==
    IF Len(key_bytes) # 32 THEN Err("InvalidPayload")
    ELSE IF Len(ciphertext) < NONCE_LENGTH + 1 THEN Err("InvalidPayload")
    ELSE LET parts == split_at(ciphertext, NONCE_LENGTH)
         IN  IF ~parts.ok THEN parts
             ELSE
             LET nonce == from_slice(parts.val[1], NONCE_LENGTH)
                 key == from_slice(key_bytes, KEY_LENGTH)
             IN  IF ~nonce.ok THEN nonce
                 ELSE IF ~key.ok THEN key
                 ELSE
                 LET plain == Aes256Gcm_decrypt(key.val, nonce.val,
                                                parts.val[2])
                 IN  IF ~plain.ok THEN Err("DecryptionFailed")
                     ELSE Ok(plain.val)

\* variant: the JSON slice starts one byte early
extract_header_short_skip(data) ==
    IF Len(data) < HEADER_LENGTH THEN Err("InvalidPayload")
    ELSE LET version == index_range(data, 0, 1)
             stamp == index_range(data, 1, 9)
             rest == index_range(data, HEADER_LENGTH - 1, Len(data))
         IN  IF ~version.ok THEN version
             ELSE IF ~stamp.ok THEN stamp
             ELSE IF ~rest.ok THEN rest
             ELSE Ok([version |-> version.val[1],
                      timestamp |-> from_be_bytes(stamp.val),
                      rest |-> rest.val])

\* variant: a frame with nothing after the header is refused
extract_header_nonempty(data) ==
    IF Len(data) <= HEADER_LENGTH THEN Err("InvalidPayload")
    ELSE LET version == index_range(data, 0, 1)
             stamp == index_range(data, 1, 9)
             rest == index_range(data, HEADER_LENGTH, Len(data))
         IN  IF ~version.ok THEN version
             ELSE IF ~stamp.ok THEN stamp
             ELSE IF ~rest.ok THEN rest
             ELSE Ok([version |-> version.val[1],
                      timestamp |-> from_be_bytes(stamp.val),
                      rest |-> rest.val])

extract_header(data) ==
    IF Len(data) < HEADER_LENGTH THEN Err("InvalidPayload")
    ELSE LET version == index_range(data, 0, 1)
             stamp == index_range(data, 1, 9)
             rest == index_range(data, HEADER_LENGTH, Len(data))
         IN  IF ~version.ok THEN version
             ELSE IF ~stamp.ok THEN stamp
             ELSE IF ~rest.ok THEN rest
             ELSE Ok([version |-> version.val[1],
                      timestamp |-> from_be_bytes(stamp.val),
                      rest |-> rest.val])

\* variant: a link of exactly EXPIRATION_SECS seconds is already expired
validate_timestamp_inclusive(created_at, clock) ==
    LET now_ == get_unix_timestamp(clock)
        age == saturating_sub(now_, created_at)
    IN  IF U64Less(U64(EXPIRATION_SECS), age) \/ age = U64(EXPIRATION_SECS)
        THEN Err("Expired")
        ELSE Ok(TRUE)

validate_timestamp(created_at, clock) ==
    LET now_ == get_unix_timestamp(clock)
    IN  IF U64Less(U64(EXPIRATION_SECS), saturating_sub(now_, created_at))
        THEN Err("Expired")
        ELSE Ok(TRUE)

\* the read loop takes at most CHUNK_SIZE bytes per iteration and checks the
\* accumulated length after each one
decompress_raw(compressed) ==
    LET stream == Inflate(compressed)
    IN  IF ~stream.ok THEN Err("CompressionFailed")
        ELSE IF Len(stream.val) > MAX_DECOMPRESSED_SIZE
        THEN Err("InvalidPayload")
        ELSE Ok(stream.val)

\* The same loop, one iteration at a time, on the lengths alone.  A stream is
\* described by the number of bytes it decompresses to (total) and by
\* whether the decoder reports an error once they are produced (fault).
\* decoder.read(&mut buf) with buf of CHUNK_SIZE bytes: the numbers of bytes
\* a call may return when produced bytes were handed out before; 0 is the
\* end of the stream
\* the most a read can return: what is left of the stream, or a full buffer
ReadMax(total, produced) ==
    IF produced >= total THEN 0
    ELSE IF total - produced < CHUNK_SIZE THEN total - produced
    ELSE CHUNK_SIZE

DeflateDecoder_read(total, produced) ==
    IF produced >= total THEN {0} ELSE 1..ReadMax(total, produced)

\* variant: the limit is checked with >= instead of >
read_loop_body_inclusive(len, n) ==
    LET extended == len + n
    IN  IF extended >= MAX_DECOMPRESSED_SIZE
        THEN [len |-> extended, pc |-> "InvalidPayload"]
        ELSE [len |-> extended, pc |-> "loop"]

\* the loop body after a read of n > 0 bytes: extend_from_slice, then the
\* size check; len is decompressed.len()
read_loop_body(len, n) ==
    LET extended == len + n
    IN  IF extended > MAX_DECOMPRESSED_SIZE
        THEN [len |-> extended, pc |-> "InvalidPayload"]
        ELSE [len |-> extended, pc |-> "loop"]

DecodeResult(json, created_at, mode) ==
    [json |-> json, created_at |-> created_at, mode |-> mode]

\* variant: the layout is chosen by the shape of the credential (a 32-byte
\* base64url key or not) and the is_passphrase argument is ignored
decode_share_payload_by_credential(data, key_or_passphrase, is_passphrase, clock) ==
    LET raw == decode_base64url(data)
        as_key == decode_base64url(key_or_passphrase)
        passphrase_shaped == ~(as_key.ok /\ Len(as_key.val) = 32)
    IN  IF ~raw.ok THEN raw
    ELSE
    LET decrypted ==
            IF passphrase_shaped
            THEN IF Len(raw.val) < SALT_LENGTH + NONCE_LENGTH + 1
                 THEN Err("InvalidPayload")
                 ELSE LET parts == split_at(raw.val, SALT_LENGTH)
                      IN  IF ~parts.ok THEN parts
                          ELSE
                          LET salt == parts.val[1]
                              ciphertext == parts.val[2]
                              key == derive_key_from_passphrase(
                                         key_or_passphrase, salt)
                          IN  IF ~key.ok THEN key
                              ELSE decrypt_payload(ciphertext, key.val)
            ELSE LET key_bytes == decode_base64url(key_or_passphrase)
                 IN  IF ~key_bytes.ok THEN key_bytes
                     ELSE IF Len(key_bytes.val) # 32 THEN Err("InvalidPayload")
                     ELSE decrypt_payload(raw.val, key_bytes.val)
        expected_version == IF passphrase_shaped THEN VERSION_PASSPHRASE
                                             ELSE VERSION_RANDOM_KEY
    IN  IF ~decrypted.ok THEN decrypted
    ELSE
    LET decompressed == decompress_raw(decrypted.val)
    IN  IF ~decompressed.ok THEN decompressed
    ELSE
    LET header == extract_header(decompressed.val)
    IN  IF ~header.ok THEN header
    ELSE IF header.val.version # expected_version THEN Err("InvalidPayload")
    ELSE
    LET fresh == validate_timestamp(header.val.timestamp, clock)
    IN  IF ~fresh.ok THEN fresh
    ELSE IF ~IsValidUtf8(header.val.rest) THEN Err("InvalidPayload")
    ELSE Ok(DecodeResult(header.val.rest, header.val.timestamp,
                         IF header.val.version = VERSION_RANDOM_KEY
                         THEN "quick" ELSE "protected"))

\* variant: the version byte of the frame is not compared with the mode
decode_share_payload_any_version(data, key_or_passphrase, is_passphrase, clock) ==
    LET raw == decode_base64url(data)
    IN  IF ~raw.ok THEN raw
    ELSE
    LET decrypted ==
            IF is_passphrase
            THEN IF Len(raw.val) < SALT_LENGTH + NONCE_LENGTH + 1
                 THEN Err("InvalidPayload")
                 ELSE LET parts == split_at(raw.val, SALT_LENGTH)
                      IN  IF ~parts.ok THEN parts
                          ELSE
                          LET salt == parts.val[1]
                              ciphertext == parts.val[2]
                              key == derive_key_from_passphrase(
                                         key_or_passphrase, salt)
                          IN  IF ~key.ok THEN key
                              ELSE decrypt_payload(ciphertext, key.val)
            ELSE LET key_bytes == decode_base64url(key_or_passphrase)
                 IN  IF ~key_bytes.ok THEN key_bytes
                     ELSE IF Len(key_bytes.val) # 32 THEN Err("InvalidPayload")
                     ELSE decrypt_payload(raw.val, key_bytes.val)
        expected_version == IF is_passphrase THEN VERSION_PASSPHRASE
                                             ELSE VERSION_RANDOM_KEY
    IN  IF ~decrypted.ok THEN decrypted
    ELSE
    LET decompressed == decompress_raw(decrypted.val)
    IN  IF ~decompressed.ok THEN decompressed
    ELSE
    LET header == extract_header(decompressed.val)
    IN  IF ~header.ok THEN header
    ELSE
    LET fresh == validate_timestamp(header.val.timestamp, clock)
    IN  IF ~fresh.ok THEN fresh
    ELSE IF ~IsValidUtf8(header.val.rest) THEN Err("InvalidPayload")
    ELSE Ok(DecodeResult(header.val.rest, header.val.timestamp,
                         IF header.val.version = VERSION_RANDOM_KEY
                         THEN "quick" ELSE "protected"))

\* variant: the expiration check is made before the version check
decode_share_payload_expiry_first(data, key_or_passphrase, is_passphrase, clock) ==
    LET raw == decode_base64url(data)
    IN  IF ~raw.ok THEN raw
    ELSE
    LET decrypted ==
            IF is_passphrase
            THEN IF Len(raw.val) < SALT_LENGTH + NONCE_LENGTH + 1
                 THEN Err("InvalidPayload")
                 ELSE LET parts == split_at(raw.val, SALT_LENGTH)
                      IN  IF ~parts.ok THEN parts
                          ELSE
                          LET salt == parts.val[1]
                              ciphertext == parts.val[2]
                              key == derive_key_from_passphrase(
                                         key_or_passphrase, salt)
                          IN  IF ~key.ok THEN key
                              ELSE decrypt_payload(ciphertext, key.val)
            ELSE LET key_bytes == decode_base64url(key_or_passphrase)
                 IN  IF ~key_bytes.ok THEN key_bytes
                     ELSE IF Len(key_bytes.val) # 32 THEN Err("InvalidPayload")
                     ELSE decrypt_payload(raw.val, key_bytes.val)
        expected_version == IF is_passphrase THEN VERSION_PASSPHRASE
                                             ELSE VERSION_RANDOM_KEY
    IN  IF ~decrypted.ok THEN decrypted
    ELSE
    LET decompressed == decompress_raw(decrypted.val)
    IN  IF ~decompressed.ok THEN decompressed
    ELSE
    LET header == extract_header(decompressed.val)
    IN  IF ~header.ok THEN header
    ELSE
    LET fresh == validate_timestamp(header.val.timestamp, clock)
    IN  IF ~fresh.ok THEN fresh
    ELSE IF header.val.version # expected_version THEN Err("InvalidPayload")
    ELSE IF ~IsValidUtf8(header.val.rest) THEN Err("InvalidPayload")
    ELSE Ok(DecodeResult(header.val.rest, header.val.timestamp,
                         IF header.val.version = VERSION_RANDOM_KEY
                         THEN "quick" ELSE "protected"))

decode_share_payload(data, key_or_passphrase, is_passphrase, clock) ==
    LET raw == decode_base64url(data)
    IN  IF ~raw.ok THEN raw
    ELSE
    LET decrypted ==
            IF is_passphrase
            THEN IF Len(raw.val) < SALT_LENGTH + NONCE_LENGTH + 1
                 THEN Err("InvalidPayload")
                 ELSE LET parts == split_at(raw.val, SALT_LENGTH)
                      IN  IF ~parts.ok THEN parts
                          ELSE
                          LET salt == parts.val[1]
                              ciphertext == parts.val[2]
                              key == derive_key_from_passphrase(
                                         key_or_passphrase, salt)
                          IN  IF ~key.ok THEN key
                              ELSE decrypt_payload(ciphertext, key.val)
            ELSE LET key_bytes == decode_base64url(key_or_passphrase)
                 IN  IF ~key_bytes.ok THEN key_bytes
                     ELSE IF Len(key_bytes.val) # 32 THEN Err("InvalidPayload")
                     ELSE decrypt_payload(raw.val, key_bytes.val)
        expected_version == IF is_passphrase THEN VERSION_PASSPHRASE
                                             ELSE VERSION_RANDOM_KEY
    IN  IF ~decrypted.ok THEN decrypted
    ELSE
    LET decompressed == decompress_raw(decrypted.val)
    IN  IF ~decompressed.ok THEN decompressed
    ELSE
    LET header == extract_header(decompressed.val)
    IN  IF ~header.ok THEN header
    ELSE IF header.val.version # expected_version THEN Err("InvalidPayload")
    ELSE
    LET fresh == validate_timestamp(header.val.timestamp, clock)
    IN  IF ~fresh.ok THEN fresh
    ELSE IF ~IsValidUtf8(header.val.rest) THEN Err("InvalidPayload")
    ELSE Ok(DecodeResult(header.val.rest, header.val.timestamp,
                         IF header.val.version = VERSION_RANDOM_KEY
                         THEN "quick" ELSE "protected"))

\* the offsets at which decode_share_payload and decrypt_payload cut the
\* decoded blob: the salt the key is derived from (passphrase mode), the
\* nonce, and the ciphertext with its tag
decoder_split(raw, is_passphrase) ==
    LET outer == IF is_passphrase THEN split_at(raw, SALT_LENGTH)
                                  ELSE Ok(<< << >>, raw >>)
    IN  IF ~outer.ok THEN outer
        ELSE LET inner == split_at(outer.val[2], NONCE_LENGTH)
             IN  IF ~inner.ok THEN inner
                 ELSE Ok([salt |-> outer.val[1], nonce |-> inner.val[1],
                          encrypted |-> inner.val[2]])

\* ------------------------------------------------------------------------
\* Wasm exports of lib.rs
\* ------------------------------------------------------------------------
HexDigit(v) == IF v < 10 THEN 48 + v ELSE 97 + (v - 10)

\* serde_json's escape of one byte of a string: the quote, the backslash
\* and the control characters are escaped, all other bytes are copied
EscapeByte(b) ==
    CASE b = 34 -> << 92, 34 >>
      [] b = 92 -> << 92, 92 >>
      [] b = 8 -> << 92, 98 >>
      [] b = 9 -> << 92, 116 >>
      [] b = 10 -> << 92, 110 >>
      [] b = 12 -> << 92, 102 >>
      [] b = 13 -> << 92, 114 >>
      [] b < 32 /\ b \notin {8, 9, 10, 12, 13}
           -> << 92, 117, 48, 48, HexDigit(b \div 16), HexDigit(b % 16) >>
      [] OTHER -> << b >>

RECURSIVE EscapeBytes(_)
EscapeBytes(str) ==
    IF str = << >> THEN << >>
    ELSE EscapeByte(Head(str)) \o EscapeBytes(Tail(str))

\* serde_json::to_string(&String): the JSON string literal
serde_json_to_string(str) == << 34 >> \o EscapeBytes(str) \o << 34 >>

\* variant: DecryptionFailed is remapped whatever the mode
js_decode_share_payload_always_remap(data, key_or_passphrase, is_passphrase, clock) ==
    LET result == decode_share_payload(data, key_or_passphrase, is_passphrase,
                                       clock)
    IN  IF result = Panic THEN Panic
        ELSE IF result.ok
        THEN [success |-> TRUE,
              json |-> serde_json_to_string(result.val.json),
              createdAt |-> result.val.created_at,
              mode |-> result.val.mode]
        ELSE LET e == result.err
                 code == IF e = "DecryptionFailed" THEN "wrong_passphrase"
                         ELSE error_code(e)
             IN  [success |-> FALSE, error |-> Display(e), errorCode |-> code]

\* js_decode_share_payload: the fields of the JSON text it returns
js_decode_share_payload(data, key_or_passphrase, is_passphrase, clock) ==
    LET result == decode_share_payload(data, key_or_passphrase, is_passphrase,
                                       clock)
    IN  IF result = Panic THEN Panic
        ELSE IF result.ok
        THEN [success |-> TRUE,
              json |-> serde_json_to_string(result.val.json),
              createdAt |-> result.val.created_at,
              mode |-> result.val.mode]
        ELSE LET e == result.err
                 code == IF e = "DecryptionFailed" /\ is_passphrase
                         THEN "wrong_passphrase"
                         ELSE error_code(e)
             IN  [success |-> FALSE, error |-> Display(e), errorCode |-> code]

\* ------------------------------------------------------------------------
\* Inputs of the model
\* ------------------------------------------------------------------------
NumSeeds == 2

\* one draw of the random source: a numbered draw or a failure
Seeds == 0..NumSeeds

\* the draws of one encoder call, in order; nothing is drawn after a failure
RngStreams == {r \in Seeds \X Seeds : (r[1] = RngFail) => (r[2] = RngFail)}

\* "", "1" and "\"e-acute\"" (a two-byte UTF-8 character)
Jsons == {<< >>, << 49 >>, << 34, 195, 169, 34 >>}

\* "pw" and "px"
Passphrases == {<< 112, 119 >>, << 112, 120 >>}

PassphraseArgs == {None, Some(<< >>), Some(<< 112, 119 >>)}

\* well-formed keys, the passphrases, and strings that are no key:
\* "" (0 bytes) and "!!" (not base64url)
Credentials ==
    {encode_base64url(RandomBytes(KEY_LENGTH, k)) : k \in 1..NumSeeds}
        \cup Passphrases
        \cup {<< >>, << 33, 33 >>}

\* strings that are not unpadded base64url: "!!!invalid!!!", "A" (length 1
\* mod 4), "QQ==" (padded), "QR" (trailing bits), "a+b/" (standard alphabet)
MalformedData ==
    {<< 33, 33, 33, 105, 110, 118, 97, 108, 105, 100, 33, 33, 33 >>,
     << 65 >>,
     << 81, 81, 61, 61 >>,
     << 81, 82 >>,
     << 97, 43, 98, 47 >>}

T0 == 1706367600

ClockOffsets == {0, EXPIRATION_SECS - 1, EXPIRATION_SECS, EXPIRATION_SECS + 1}

ClockValues == {U64(T0 + d) : d \in ClockOffsets}

\* a clock reading below 2^32 as a number
U64ToNat(u) == u[3] * 65536 + u[4]

\* a document of n bytes that the compressor stores as it is
LargeJson(n) == [i \in 1..n |-> 97 + (i % 26)]

\* document lengths around the size limit of either mode: with a stored
\* block the data string has B64EncodedLen(n + 42) characters in random-key
\* mode and B64EncodedLen(n + 58) in passphrase mode
SizeSpan == 1

LargeLens ==
    {4458 - 16 + d : d \in (0 - SizeSpan)..SizeSpan}
        \cup {4458 + d : d \in (0 - SizeSpan)..SizeSpan}

\* all sequences over S of at most n elements
SeqsUpTo(S, n) == UNION {[1..k -> S] : k \in 0..n}

\* byte strings handed to the codec: every single byte, and all strings of
\* at most MaxBytes bytes over 0x00, 0x3F, 0xFB, 0xFF (0xFB and 0xFF bring up
\* the symbols 62 and 63)
MaxBytes == 3

ByteStrings ==
    {<< b >> : b \in 0..255} \cup SeqsUpTo({0, 63, 251, 255}, MaxBytes)

\* texts handed to the decoder: all strings of at most MaxChars characters
\* over 'A', 'z', '-', '_', '=', '+', '/', '@'
MaxChars == 3

Texts == SeqsUpTo({65, 122, 45, 95, 61, 43, 47, 64}, MaxChars)

\* lengths of decompressed streams: small ones and ones around the limit
StreamLens ==
    {0, 1, CHUNK_SIZE, CHUNK_SIZE + 1,
     MAX_DECOMPRESSED_SIZE - 1, MAX_DECOMPRESSED_SIZE,
     MAX_DECOMPRESSED_SIZE + 1, MAX_DECOMPRESSED_SIZE + CHUNK_SIZE,
     MAX_DECOMPRESSED_SIZE + CHUNK_SIZE + 1}

\* a read fills the buffer, or returns less than it could: the number of
\* such short reads in one call is bounded, their sizes are 1 or one less
\* than the buffer
MaxShortReads == 1

ReadWants == {1, CHUNK_SIZE - 1, CHUNK_SIZE}

\* ------------------------------------------------------------------------
\* Calls running on separate threads.  A call keeps its bindings (the frame
\* it compressed, the key, the salt, its result) on its own stack; what it
\* takes from outside is the clock reading and the draws of the random source.
\* ------------------------------------------------------------------------
NumThreads == 2

Threads == 1..NumThreads

\* a thread that runs no call
Idle ==
    [op |-> "idle", pc |-> "idle", json |-> << >>, passphrase |-> None,
     data |-> << >>, cred |-> << >>, is_passphrase |-> FALSE,
     clock |-> None, draws |-> << >>, salt |-> << >>, key |-> << >>,
     buf |-> << >>, result |-> None]

\* payloads in circulation that the threads decode
SampleQuick ==
    create_share_payload(<< 49 >>, None, U64(T0), << 1, 1 >>).val

SampleProtected ==
    create_share_payload(<< 49 >>, Some(<< 112, 119 >>), U64(T0),
                         << 1, 1 >>).val

ThreadCreateArgs ==
    {<< << >>, None >>, << << 49 >>, None >>,
     << << 49 >>, Some(<< 112, 119 >>) >>}

ThreadDecodeArgs ==
    {<< SampleQuick.data, SampleQuick.key[1], FALSE >>,
     << SampleProtected.data, << 112, 119 >>, TRUE >>,
     << SampleProtected.data, << 112, 120 >>, TRUE >>}

\* ------------------------------------------------------------------------
\* State
\* ------------------------------------------------------------------------
VARIABLES
    now,    \* the clock: what get_unix_timestamp() returns
    link,   \* the share link in circulation, None or Some of a record
    enc,    \* the last create_share_payload call and its result
    dec,    \* the last decode_share_payload call and its result
    prev,   \* an earlier call of the function that was called last
    call,   \* the last call of a helper or of a wasm export and its output
    rd,     \* the read loop of a decompress_raw call in progress
    thr     \* per thread, the call it is running and the call's own bindings

vars == << now, link, enc, dec, prev, call, rd, thr >>

\* data, key: the SharePayload; pass, cred: the mode and the credential that
\* opens it; plain: the bytes that were encrypted; origin: who made it
Link(data, key, pass, cred, plain, origin) ==
    [data |-> data, key |-> key, pass |-> pass, cred |-> cred,
     plain |-> plain, origin |-> origin]

Init ==
    /\ now = U64(T0)
    /\ link = None
    /\ enc = None
    /\ dec = None
    /\ prev = None
    /\ call = None
    /\ rd = None
    /\ thr = [t \in Threads |-> Idle]

\* create_share_payload(json, passphrase), with the draws rng.  A behaviour
\* follows one encoder call and the link it returns.
Create(json, passphrase, rng) ==
    LET result == create_share_payload(json, passphrase, now, rng)
        is_passphrase == IsSome(passphrase) /\ passphrase[1] # << >>
    IN  /\ link = None
        /\ enc = None
        /\ enc' = Some([json |-> json, passphrase |-> passphrase,
                        clock |-> now, rng |-> rng, result |-> result])
        /\ link' = IF result.ok
                   THEN Some(Link(result.val.data, result.val.key,
                                  is_passphrase,
                                  IF is_passphrase THEN passphrase[1]
                                                   ELSE result.val.key[1],
                                  compress_with_header(json,
                                      IF is_passphrase THEN VERSION_PASSPHRASE
                                                       ELSE VERSION_RANDOM_KEY,
                                      now).val,
                                  "created"))
                   ELSE None
        /\ dec' = None
        /\ UNCHANGED << now, prev, call, rd, thr >>

\* the draws a call was handed, failures aside
DrawsOf(rng) == {rng[1], rng[2]} \ {RngFail}

\* A second create_share_payload call with the arguments of the first.  The
\* random source is cryptographically secure: it does not hand out again a
\* draw it handed to the earlier call.
CreateAgain(rng) ==
    /\ IsSome(enc)
    /\ prev = None
    /\ DrawsOf(rng) \cap DrawsOf(enc[1].rng) = {}
    /\ LET json == enc[1].json
           passphrase == enc[1].passphrase
           result == create_share_payload(json, passphrase, now, rng)
           is_passphrase == IsSome(passphrase) /\ passphrase[1] # << >>
       IN  /\ prev' = enc
           /\ enc' = Some([json |-> json, passphrase |-> passphrase,
                           clock |-> now, rng |-> rng, result |-> result])
           /\ link' = IF result.ok
                      THEN Some(Link(result.val.data, result.val.key,
                                     is_passphrase,
                                     IF is_passphrase THEN passphrase[1]
                                                      ELSE result.val.key[1],
                                     compress_with_header(json,
                                         IF is_passphrase
                                         THEN VERSION_PASSPHRASE
                                         ELSE VERSION_RANDOM_KEY,
                                         now).val,
                                     "created"))
                      ELSE None
    /\ dec' = None
    /\ UNCHANGED << now, call, rd, thr >>

\* decode_share_payload(data, key_or_passphrase, is_passphrase)
Decode(data, key_or_passphrase, is_passphrase) ==
    /\ dec' = Some([data |-> data, cred |-> key_or_passphrase,
                    is_passphrase |-> is_passphrase, clock |-> now,
                    result |-> decode_share_payload(data, key_or_passphrase,
                                                    is_passphrase, now)])
    /\ UNCHANGED << now, link, enc, prev, call, rd, thr >>

\* variant: after a failed attempt the decoder keeps returning that failure
DecodeAgain_locked(data, key_or_passphrase, is_passphrase) ==
    /\ IsSome(dec)
    /\ prev' \in {dec} \cup (IF IsSome(prev) THEN {prev} ELSE {})
    /\ dec' = Some([data |-> data, cred |-> key_or_passphrase,
                    is_passphrase |-> is_passphrase, clock |-> now,
                    result |-> IF ~dec[1].result.ok THEN dec[1].result
                               ELSE decode_share_payload(data,
                                        key_or_passphrase, is_passphrase,
                                        now)])
    /\ UNCHANGED << now, link, enc, call, rd, thr >>

\* decode_share_payload called once more; prev keeps one of the earlier
\* calls, whichever.  The function has no state of its own: the call works
\* on its arguments and the clock.
DecodeAgain(data, key_or_passphrase, is_passphrase) ==
    /\ IsSome(dec)
    /\ prev' \in {dec} \cup (IF IsSome(prev) THEN {prev} ELSE {})
    /\ dec' = Some([data |-> data, cred |-> key_or_passphrase,
                    is_passphrase |-> is_passphrase, clock |-> now,
                    result |-> decode_share_payload(data, key_or_passphrase,
                                                    is_passphrase, now)])
    /\ UNCHANGED << now, link, enc, call, rd, thr >>

\* variant: the clock can be set back
Tick_unordered(t) ==
    /\ now # t
    /\ now' = t
    /\ UNCHANGED << link, enc, dec, prev, call, rd, thr >>

\* time passes between calls
Tick(t) ==
    /\ U64Less(now, t)
    /\ now' = t
    /\ UNCHANGED << link, enc, dec, prev, call, rd, thr >>

\* test_tampered_data: one bit of one byte of the decoded data is changed
FlipBit(byte, bit) ==
    IF (byte \div Pow2(bit)) % 2 = 1 THEN byte - Pow2(bit) ELSE byte + Pow2(bit)

\* first byte of the ciphertext portion (after the salt, if any, and nonce)
CiphertextStart(pass) ==
    (IF pass THEN SALT_LENGTH ELSE 0) + NONCE_LENGTH + 1

Tamper(pos, bit) ==
    /\ IsSome(link)
    /\ link[1].origin = "created"
    /\ LET raw == decode_base64url(link[1].data).val
       IN  /\ pos >= CiphertextStart(link[1].pass)
           /\ pos <= Len(raw)
           /\ link' = Some([link[1] EXCEPT
                  !.data = encode_base64url(
                               [raw EXCEPT ![pos] = FlipBit(raw[pos], bit)]),
                  !.origin = "tampered"])
    /\ dec' = None
    /\ UNCHANGED << now, enc, prev, call, rd, thr >>

\* A holder of a credential encrypts bytes of their choice with the wire
\* layout of the encoder (salt, nonce, ciphertext), draws numbered 1.
CraftPassphrase == << 112, 119 >>

Craft(plain, is_passphrase) ==
    LET salt == RandomBytes(SALT_LENGTH, 1)
        key == IF is_passphrase
               THEN derive_key_from_passphrase(CraftPassphrase, salt).val
               ELSE generate_random_key(1).val
        encrypted == encrypt_payload(plain, key, 1).val
        payload == IF is_passphrase THEN salt \o encrypted ELSE encrypted
    IN  /\ link = None
        /\ enc = None
        /\ link' = Some(Link(encode_base64url(payload),
                             IF is_passphrase THEN None
                             ELSE Some(encode_base64url(key)),
                             is_passphrase,
                             IF is_passphrase THEN CraftPassphrase
                                              ELSE encode_base64url(key),
                             plain, "crafted"))
        /\ UNCHANGED << now, enc, dec, prev, call, rd, thr >>

\* a call of a helper or of a wasm export: its name, argument and output
Call(fn, arg, out) == [fn |-> fn, arg |-> arg, out |-> out]

\* The codec functions are pure: a behaviour follows one call.
\* encode_base64url(bytes)
Encode(bytes) ==
    /\ call = None
    /\ call' = Some(Call("encode_base64url", bytes, encode_base64url(bytes)))
    /\ UNCHANGED << now, link, enc, dec, prev, rd, thr >>

\* decode_base64url(&encode_base64url(bytes)), as in test_base64url_roundtrip
RoundTrip(bytes) ==
    /\ call = None
    /\ call' = Some(Call("roundtrip", bytes,
                         decode_base64url(encode_base64url(bytes))))
    /\ UNCHANGED << now, link, enc, dec, prev, rd, thr >>

\* decode_base64url(input)
DecodeText(input) ==
    /\ call = None
    /\ call' = Some(Call("decode_base64url", input, decode_base64url(input)))
    /\ UNCHANGED << now, link, enc, dec, prev, rd, thr >>

\* timestamps a frame can carry: around the clock readings, and the ends of
\* the limbs of a u64
StampValues ==
    {U64(T0 + d) : d \in {-(EXPIRATION_SECS + 1), -EXPIRATION_SECS, -1, 0, 1,
                          EXPIRATION_SECS, EXPIRATION_SECS + 1,
                          EXPIRATION_SECS + 2}}
        \cup {<< a, b, c, d >> : a \in {0, 65535}, b \in {0, 65535},
                                c \in {0, 1, 65535}, d \in {0, 1, 65535}}
        \cup {<< 32768, 0, 0, 0 >>, << 0, 1, 0, 0 >>}

\* validate_timestamp(created_at): the age it computes and what it returns
ValidateTimestamp(created_at) ==
    /\ call' = Some(Call("validate_timestamp", << created_at, now >>,
                         [age |-> saturating_sub(get_unix_timestamp(now),
                                                 created_at),
                          result |-> validate_timestamp(created_at, now)]))
    /\ UNCHANGED << now, link, enc, dec, prev, rd, thr >>

\* e.error_code(), as in test_error_codes
ErrorCode(e) ==
    /\ call' = Some(Call("error_code", e, error_code(e)))
    /\ UNCHANGED << now, link, enc, dec, prev, rd, thr >>

\* js_decode_share_payload(data, key_or_passphrase, is_passphrase): the
\* export calls decode_share_payload and formats what it returns.  The
\* export keeps no state: a behaviour follows one call of it.
JsDecode(data, key_or_passphrase, is_passphrase) ==
    /\ call = None
    /\ dec' = Some([data |-> data, cred |-> key_or_passphrase,
                    is_passphrase |-> is_passphrase, clock |-> now,
                    result |-> decode_share_payload(data, key_or_passphrase,
                                                    is_passphrase, now)])
    /\ call' = Some(Call("js_decode_share_payload",
                         << data, key_or_passphrase, is_passphrase >>,
                         js_decode_share_payload(data, key_or_passphrase,
                                                 is_passphrase, now)))
    /\ UNCHANGED << now, link, enc, prev, rd, thr >>

\* decompress_raw is called on a stream: decompressed is empty
DecompressStart(total, fault) ==
    /\ rd = None
    /\ rd' = Some([total |-> total, fault |-> fault, len |-> 0, n |-> 0,
                   shorts |-> 0, pc |-> "loop"])
    /\ UNCHANGED << now, link, enc, dec, prev, call, thr >>

\* one iteration of the loop: a read of at most want bytes, then the body
DecompressRead(want) ==
    /\ IsSome(rd)
    /\ rd[1].pc = "loop"
    /\ LET r == rd[1]
           full == ReadMax(r.total, r.len)
           n == IF want < full THEN want ELSE full
       IN  /\ n \in DeflateDecoder_read(r.total, r.len)
           /\ (n < full) => (r.shorts < MaxShortReads)
           /\ rd' = Some(
                 IF n = 0
                 THEN [r EXCEPT !.n = 0,
                                !.pc = IF r.fault THEN "CompressionFailed"
                                                  ELSE "Ok"]
                 ELSE LET body == read_loop_body(r.len, n)
                      IN  [r EXCEPT !.n = n,
                                    !.len = body.len,
                                    !.pc = body.pc,
                                    !.shorts = IF n < full THEN @ + 1 ELSE @])
    /\ UNCHANGED << now, link, enc, dec, prev, call, thr >>

\* frames a holder of a credential may compress and encrypt
Frame(version, timestamp, json) == << version >> \o to_be_bytes(timestamp) \o json

U64_MAX == << 65535, 65535, 65535, 65535 >>

CraftFrames ==
    {Frame(v, t, j) : v \in {VERSION_RANDOM_KEY, VERSION_PASSPHRASE},
                      t \in {U64(T0), U64_MAX},
                      j \in {<< >>, << 49 >>, << 195 >>}}
        \cup {<< VERSION_RANDOM_KEY, 0, 0 >>,
              Frame(VERSION_RANDOM_KEY, U64(0), << 49 >>),
              Frame(3, U64(T0), << 49 >>)}

\* plaintexts handed to the cipher: compressed frames, the bytes of
\* test_decompress_invalid_data, a stored block with a bad length check
CraftPlains ==
    {Deflate(f) : f \in CraftFrames}
        \cup {<< 255, 254, 253 >>, << 1, 1, 0, 0, 0, 49 >>}

LinkData == IF IsSome(link) THEN {link[1].data} ELSE {}

\* test_truncated_data: only the first bytes of a blob arrive; the lengths
\* are those around the minimum of either mode
TruncLens == {0, 5, NONCE_LENGTH, NONCE_LENGTH + 1,
              SALT_LENGTH + NONCE_LENGTH, SALT_LENGTH + NONCE_LENGTH + 1}

Truncations(data) ==
    LET raw == decode_base64url(data).val
    IN  {encode_base64url(Take(raw, n)) : n \in {k \in TruncLens : k <= Len(raw)}}

\* damaged forms of the link: truncated, or cut inside a base64url group
DamagedData ==
    IF IsSome(link)
    THEN Truncations(link[1].data) \cup {Take(link[1].data, 1)}
    ELSE {}

\* the credential a damaged link is presented with: a passphrase, or a
\* well-formed key as in test_truncated_data
DamagedCredential(is_passphrase) ==
    IF is_passphrase THEN << 112, 119 >>
    ELSE encode_base64url(RandomBytes(KEY_LENGTH, 1))

\* number of bytes the data of the link decodes to
LinkRawLen ==
    IF IsSome(link) THEN B64DecodedLen(Len(link[1].data)) ELSE 0

TamperBits == 0..7

\* ------------------------------------------------------------------------
\* create_share_payload and decode_share_payload running on threads, one
\* call per thread, cut where a call reads the clock or the random source
\* ------------------------------------------------------------------------
\* variant: the compressed frame is kept in one buffer that all threads use
thread_local_static_buffer(t, frame) ==
    [u \in Threads |->
        IF u = t THEN frame ELSE [thr[u] EXCEPT !.buf = frame.buf]]

\* the bindings of a call are locals of the function: writing them changes
\* the stack of the thread that runs the call and nothing else
thread_local(t, frame) == [thr EXCEPT ![t] = frame]

RECURSIVE DrawsUpTo(_)
DrawsUpTo(n) == IF n = 0 THEN 0 ELSE Len(thr[n].draws) + DrawsUpTo(n - 1)

\* the random source is thread-safe: it hands every draw to one call
NextDraw == DrawsUpTo(NumThreads) + 1

\* create_share_payload up to the compressed frame: the empty-input check,
\* the mode, and compress_with_header, which reads the clock
ThreadCreateCompress(t, json, passphrase) ==
    /\ thr[t].pc = "idle"
    /\ LET is_passphrase == IsSome(passphrase) /\ passphrase[1] # << >>
           version == IF is_passphrase THEN VERSION_PASSPHRASE
                                       ELSE VERSION_RANDOM_KEY
           compressed == compress_with_header(json, version, now)
           started == [Idle EXCEPT !.op = "create", !.json = json,
                                   !.passphrase = passphrase,
                                   !.is_passphrase = is_passphrase]
       IN  thr' = thread_local(t,
               IF json = << >>
               THEN [started EXCEPT !.pc = "done",
                                    !.result = Some(Err("EmptyInput"))]
               ELSE IF ~compressed.ok
               THEN [started EXCEPT !.pc = "done", !.clock = Some(now),
                                    !.result = Some(compressed)]
               ELSE [started EXCEPT !.pc = "key", !.clock = Some(now),
                                    !.buf = compressed.val])
    /\ UNCHANGED << now, link, enc, dec, prev, call, rd >>

\* the first draw: the salt and the derived key, or the random key
ThreadCreateKey(t) ==
    /\ thr[t].pc = "key"
    /\ LET c == [thr[t] EXCEPT !.draws = Append(@, NextDraw)]
           salt == getrandom(SALT_LENGTH, NextDraw)
           key == IF c.is_passphrase
                  THEN IF ~salt.ok THEN Err("EncryptionFailed")
                       ELSE derive_key_from_passphrase(
                                unwrap(c.passphrase).val, salt.val)
                  ELSE generate_random_key(NextDraw)
       IN  thr' = thread_local(t,
               IF ~key.ok
               THEN [c EXCEPT !.pc = "done", !.result = Some(key)]
               ELSE [c EXCEPT !.pc = "encrypt", !.key = key.val,
                              !.salt = IF c.is_passphrase THEN salt.val
                                                          ELSE << >>])
    /\ UNCHANGED << now, link, enc, dec, prev, call, rd >>

\* the second draw (the nonce), the encryption, the encoding and the size
\* check
ThreadCreateEncrypt(t) ==
    /\ thr[t].pc = "encrypt"
    /\ LET c == [thr[t] EXCEPT !.draws = Append(@, NextDraw)]
           encrypted == encrypt_payload(c.buf, c.key, NextDraw)
           payload == IF c.is_passphrase THEN c.salt \o encrypted.val
                                         ELSE encrypted.val
           data == encode_base64url(payload)
           result == IF ~encrypted.ok THEN encrypted
                     ELSE IF Len(data) > MAX_PAYLOAD_CHARS
                     THEN Err("PayloadTooLarge")
                     ELSE Ok(SharePayload(data,
                                 IF c.is_passphrase THEN None
                                 ELSE Some(encode_base64url(c.key))))
       IN  thr' = thread_local(t,
               [c EXCEPT !.pc = "done", !.result = Some(result)])
    /\ UNCHANGED << now, link, enc, dec, prev, call, rd >>

\* decode_share_payload up to the version check: the frame the credential
\* opens, or the error of the first step that fails
open_frame(data, key_or_passphrase, is_passphrase) ==
    LET raw == decode_base64url(data)
    IN  IF ~raw.ok THEN raw
    ELSE
    LET decrypted ==
            IF is_passphrase
            THEN IF Len(raw.val) < SALT_LENGTH + NONCE_LENGTH + 1
                 THEN Err("InvalidPayload")
                 ELSE LET parts == split_at(raw.val, SALT_LENGTH)
                      IN  IF ~parts.ok THEN parts
                          ELSE
                          LET key == derive_key_from_passphrase(
                                         key_or_passphrase, parts.val[1])
                          IN  IF ~key.ok THEN key
                              ELSE decrypt_payload(parts.val[2], key.val)
            ELSE LET key_bytes == decode_base64url(key_or_passphrase)
                 IN  IF ~key_bytes.ok THEN key_bytes
                     ELSE IF Len(key_bytes.val) # 32 THEN Err("InvalidPayload")
                     ELSE decrypt_payload(raw.val, key_bytes.val)
        expected_version == IF is_passphrase THEN VERSION_PASSPHRASE
                                             ELSE VERSION_RANDOM_KEY
    IN  IF ~decrypted.ok THEN decrypted
    ELSE
    LET decompressed == decompress_raw(decrypted.val)
    IN  IF ~decompressed.ok THEN decompressed
    ELSE
    LET header == extract_header(decompressed.val)
    IN  IF ~header.ok THEN header
    ELSE IF header.val.version # expected_version THEN Err("InvalidPayload")
    ELSE decompressed

ThreadDecodeOpen(t, data, key_or_passphrase, is_passphrase) ==
    /\ thr[t].pc = "idle"
    /\ LET opened == open_frame(data, key_or_passphrase, is_passphrase)
           started == [Idle EXCEPT !.op = "decode", !.data = data,
                                   !.cred = key_or_passphrase,
                                   !.is_passphrase = is_passphrase]
       IN  thr' = thread_local(t,
               IF ~opened.ok
               THEN [started EXCEPT !.pc = "done", !.result = Some(opened)]
               ELSE [started EXCEPT !.pc = "validate", !.buf = opened.val])
    /\ UNCHANGED << now, link, enc, dec, prev, call, rd >>

\* the rest of decode_share_payload: validate_timestamp, which reads the
\* clock, the UTF-8 conversion and the result
ThreadDecodeValidate(t) ==
    /\ thr[t].pc = "validate"
    /\ LET c == [thr[t] EXCEPT !.clock = Some(now)]
           header == extract_header(c.buf).val
           fresh == validate_timestamp(header.timestamp, now)
           result == IF ~fresh.ok THEN fresh
                     ELSE IF ~IsValidUtf8(header.rest)
                     THEN Err("InvalidPayload")
                     ELSE Ok(DecodeResult(header.rest, header.timestamp,
                                 IF header.version = VERSION_RANDOM_KEY
                                 THEN "quick" ELSE "protected"))
       IN  thr' = thread_local(t,
               [c EXCEPT !.pc = "done", !.result = Some(result)])
    /\ UNCHANGED << now, link, enc, dec, prev, call, rd >>

\* ------------------------------------------------------------------------
\* Specifications
\* ------------------------------------------------------------------------
NextCreate ==
    \E j \in Jsons, p \in PassphraseArgs, r \in RngStreams : Create(j, p, r)

NextDecode ==
    \E d \in LinkData, c \in Credentials, b \in BOOLEAN : Decode(d, c, b)

NextTick == \E t \in ClockValues : Tick(t)

\* encoder calls, decoder calls on the returned link, passing time
Next == NextCreate \/ NextDecode \/ NextTick

Spec == Init /\ [][Next]_vars

\* links made by a holder of a credential from bytes of their choice
NextCraft == \E pl \in CraftPlains, b \in BOOLEAN : Craft(pl, b)

NextForge == NextCraft \/ NextDecode \/ NextTick

SpecForge == Init /\ [][NextForge]_vars

\* a link altered in transit, decoded with its own credential
NextTamper ==
    \E pos \in 1..LinkRawLen, bit \in TamperBits : Tamper(pos, bit)

NextDecodeOwn ==
    \E d \in LinkData : Decode(d, link[1].cred, link[1].pass)

NextTransit == NextCreate \/ NextTamper \/ NextDecodeOwn

SpecTransit == Init /\ [][NextTransit]_vars

\* data strings that are not base64url
NextDecodeMalformed ==
    \E d \in MalformedData, c \in Credentials, b \in BOOLEAN : Decode(d, c, b)

NextMalformed == NextDecodeMalformed \/ NextTick

SpecMalformed == Init /\ [][NextMalformed]_vars

\* documents around the size limit
NextCreateLarge ==
    \E n \in LargeLens, p \in PassphraseArgs :
        Create(LargeJson(n), p, << 1, 1 >>)

NextSize == NextCreateLarge \/ NextCreate \/ NextTick

SpecSize == Init /\ [][NextSize]_vars

\* every kind of input: encoder calls, crafted links, decoder calls with
\* every credential, decoder calls on damaged data
NextDecodeDamaged ==
    \E d \in DamagedData, b \in BOOLEAN :
        Decode(d, DamagedCredential(b), b)

NextTotal == NextCreate \/ NextCraft \/ NextDecode \/ NextDecodeDamaged

SpecTotal == Init /\ [][NextTotal]_vars

\* the same document shared twice
NextCreateAgain == \E r \in RngStreams : CreateAgain(r)

NextRepeat == NextCreate \/ NextCreateAgain \/ NextTick

SpecRepeat == Init /\ [][NextRepeat]_vars

\* the codec alone
NextEncode == \E b \in ByteStrings : Encode(b)

NextRoundTrip == \E b \in ByteStrings : RoundTrip(b)

NextDecodeText == \E t \in Texts : DecodeText(t)

NextCodec == NextEncode \/ NextRoundTrip \/ NextDecodeText

SpecCodec == Init /\ [][NextCodec]_vars

\* error codes of all variants, next to decoder calls that fail
NextErrorCode == \E e \in ShareError : ErrorCode(e)

NextCodes == NextErrorCode \/ NextDecodeMalformed \/ NextTick

SpecCodes == Init /\ [][NextCodes]_vars

\* the decode export on crafted links and on data that is not base64url
NextJsDecode ==
    \E d \in LinkData \cup {<< 81, 81, 61, 61 >>}, c \in Credentials,
       b \in BOOLEAN : JsDecode(d, c, b)

NextJs == NextCraft \/ NextJsDecode \/ NextTick

SpecJs == Init /\ [][NextJs]_vars

\* the read loop of decompress_raw alone
NextDecompressStart ==
    \E total \in StreamLens, fault \in BOOLEAN : DecompressStart(total, fault)

NextDecompressRead == \E want \in ReadWants : DecompressRead(want)

NextDecompress == NextDecompressStart \/ NextDecompressRead

SpecDecompress == Init /\ [][NextDecompress]_vars

\* calls on separate threads, their steps interleaved, while time passes
NextThreadCreateCompress ==
    \E t \in Threads, a \in ThreadCreateArgs :
        ThreadCreateCompress(t, a[1], a[2])

NextThreadCreateKey == \E t \in Threads : ThreadCreateKey(t)

NextThreadCreateEncrypt == \E t \in Threads : ThreadCreateEncrypt(t)

NextThreadDecodeOpen ==
    \E t \in Threads, a \in ThreadDecodeArgs :
        ThreadDecodeOpen(t, a[1], a[2], a[3])

NextThreadDecodeValidate == \E t \in Threads : ThreadDecodeValidate(t)

\* the links of the threads pass from valid to expired
NextThreadTick == Tick(U64(T0 + EXPIRATION_SECS + 1))

NextThreads ==
    \/ NextThreadCreateCompress
    \/ NextThreadCreateKey
    \/ NextThreadCreateEncrypt
    \/ NextThreadDecodeOpen
    \/ NextThreadDecodeValidate
    \/ NextThreadTick

SpecThreads == Init /\ [][NextThreads]_vars

\* a link decoded again and again while time passes, with its credential
\* and with another one, in either mode
RetryCredentials ==
    IF IsSome(link) THEN {link[1].cred, << 112, 120 >>} ELSE {}

NextDecodeFirst ==
    \E d \in LinkData, c \in RetryCredentials, b \in BOOLEAN :
        dec = None /\ Decode(d, c, b)

NextDecodeAgain ==
    \E d \in LinkData, c \in RetryCredentials, b \in BOOLEAN :
        DecodeAgain(d, c, b)

NextCreateOne ==
    \E j \in Jsons \ {<< >>}, p \in PassphraseArgs : Create(j, p, << 1, 2 >>)

NextAgain == NextCreateOne \/ NextDecodeFirst \/ NextDecodeAgain \/ NextTick

SpecAgain == Init /\ [][NextAgain]_vars

\* the expiration check on its own, on timestamps of the whole u64 range
NextValidateTimestamp == \E c \in StampValues : ValidateTimestamp(c)

NextAge == NextValidateTimestamp \/ NextTick

SpecAge == Init /\ [][NextAge]_vars

TypeOK ==
    /\ now \in ClockValues
    /\ Len(link) <= 1 /\ Len(enc) <= 1 /\ Len(dec) <= 1
    /\ IsSome(enc) => (enc[1].result.ok \/ enc[1].result.err \in ShareError)
    /\ IsSome(dec) => (dec[1].result.ok \/ dec[1].result.err \in ShareError)
    /\ IsSome(link) => InflateModelled(link[1].plain)

\* ------------------------------------------------------------------------
\* Properties
\* ------------------------------------------------------------------------
NonEmptyPassphrase(p) == IsSome(p) /\ p[1] # << >>

\* the last decoder call was made on the data the last encoder call returned
DecodedCreated ==
    /\ IsSome(enc) /\ enc[1].result.ok
    /\ IsSome(dec) /\ dec[1].data = enc[1].result.val.data

\* seconds between the encoder call and the decoder call
Age == U64ToNat(dec[1].clock) - U64ToNat(enc[1].clock)

ModeName(pass) == IF pass THEN "protected" ELSE "quick"

\* C1 (as amended): a payload made from a non-empty JSON string j, decoded
\* within the validity window with its credential -- the passphrase p when p
\* is a non-empty passphrase, otherwise the returned key -- and with
\* is_passphrase true exactly when p is a non-empty passphrase, decodes
\* successfully to json = j, mode "protected" for the passphrase case and
\* "quick" for the random-key case.
C1_RoundTrip ==
    (/\ DecodedCreated
     /\ LET p == enc[1].passphrase
        IN  /\ dec[1].cred = IF NonEmptyPassphrase(p) THEN p[1]
                             ELSE enc[1].result.val.key[1]
            /\ dec[1].is_passphrase = NonEmptyPassphrase(p)
     /\ Age <= EXPIRATION_SECS)
    => /\ dec[1].result.ok
       /\ dec[1].result.val.json = enc[1].json
       /\ dec[1].result.val.mode
            = ModeName(NonEmptyPassphrase(enc[1].passphrase))

\* C1 witness: a passphrase-protected multi-byte document came back intact
C1_Witness ==
    /\ DecodedCreated
    /\ enc[1].passphrase = Some(<< 112, 119 >>)
    /\ dec[1].cred = << 112, 119 >>
    /\ dec[1].is_passphrase
    /\ dec[1].result.ok
    /\ dec[1].result.val.json = << 34, 195, 169, 34 >>
    /\ dec[1].result.val.mode = "protected"

\* C1 as stated: credential p whenever a passphrase is given (also an empty
\* one), otherwise the returned key, and is_passphrase = p.is_some()
C1_Original ==
    (/\ DecodedCreated
     /\ LET p == enc[1].passphrase
        IN  /\ dec[1].cred = IF IsSome(p) THEN p[1]
                             ELSE enc[1].result.val.key[1]
            /\ dec[1].is_passphrase = IsSome(p)
     /\ Age <= EXPIRATION_SECS)
    => /\ dec[1].result.ok
       /\ dec[1].result.val.json = enc[1].json
       /\ dec[1].result.val.mode = ModeName(IsSome(enc[1].passphrase))

\* the credential that belongs to the payload of the last encoder call and
\* the mode it was made in
OwnCredential ==
    IF NonEmptyPassphrase(enc[1].passphrase) THEN enc[1].passphrase[1]
    ELSE enc[1].result.val.key[1]

OwnMode == NonEmptyPassphrase(enc[1].passphrase)

DecodedWithOwn ==
    /\ DecodedCreated
    /\ dec[1].cred = OwnCredential
    /\ dec[1].is_passphrase = OwnMode

\* C2: with age = now - created_at, decoding an otherwise valid payload
\* (made by the encoder, decoded with its credential and mode) fails with
\* Expired exactly when age > 300; up to and including 300 it is accepted.
C2_ExpirationBoundary ==
    DecodedWithOwn =>
        IF Age > 300 THEN dec[1].result = Err("Expired")
                     ELSE dec[1].result.ok

\* C2 witness: a payload of exactly 300 seconds was accepted
C2_Witness ==
    /\ DecodedWithOwn
    /\ Age = 300
    /\ dec[1].result.ok

\* the decoded bytes of a and b have the same length and differ in one byte
\* only, at or after position start, and there in one bit only
OneBitApart(a, b, start) ==
    LET x == decode_base64url(a)
        y == decode_base64url(b)
    IN  /\ x.ok /\ y.ok
        /\ Len(x.val) = Len(y.val)
        /\ \E pos \in start..Len(x.val) :
              /\ \A i \in 1..Len(x.val) : (x.val[i] # y.val[i]) <=> (i = pos)
              /\ \E bit \in 0..7 : y.val[pos] = FlipBit(x.val[pos], bit)

\* the last decoder call was made, with the credential and mode of the
\* payload, on data that is one ciphertext bit away from what the encoder
\* returned
DecodedTampered ==
    /\ IsSome(enc) /\ enc[1].result.ok
    /\ IsSome(dec)
    /\ dec[1].cred = OwnCredential
    /\ dec[1].is_passphrase = OwnMode
    /\ OneBitApart(enc[1].result.val.data, dec[1].data,
                   CiphertextStart(OwnMode))

\* C3: changing any bit of the ciphertext portion (ciphertext or tag) of a
\* payload made by the encoder and decoding with the correct credential
\* fails with DecryptionFailed.
C3_TamperDetected ==
    DecodedTampered => dec[1].result = Err("DecryptionFailed")

\* C3 witness: a passphrase-protected payload with one bit changed was
\* presented with the right passphrase and refused
C3_Witness ==
    /\ DecodedTampered
    /\ OwnMode
    /\ dec[1].result = Err("DecryptionFailed")

\* a string that is the base64url form of 32 bytes
WellFormedKey(c) ==
    LET k == decode_base64url(c) IN k.ok /\ Len(k.val) = 32

\* C4: decoding a payload made by the encoder in its own mode with a
\* different well-formed 32-byte key (random-key mode) or a different
\* passphrase (passphrase mode) fails with DecryptionFailed.
C4_WrongCredential ==
    (/\ DecodedCreated
     /\ dec[1].is_passphrase = OwnMode
     /\ dec[1].cred # OwnCredential
     /\ ~OwnMode => WellFormedKey(dec[1].cred))
    => dec[1].result = Err("DecryptionFailed")

\* C4 witness: a random-key payload met another well-formed key
C4_Witness ==
    /\ DecodedCreated
    /\ ~OwnMode
    /\ ~dec[1].is_passphrase
    /\ dec[1].cred # OwnCredential
    /\ WellFormedKey(dec[1].cred)
    /\ dec[1].result = Err("DecryptionFailed")

\* C5: a payload made in one mode and decoded with the other value of
\* is_passphrase never decodes successfully, whatever the credential.
C5_ModeConfusionFails ==
    (DecodedCreated /\ dec[1].is_passphrase # OwnMode) => ~dec[1].result.ok

\* C5 witness: a random-key payload and its own key, presented as a
\* passphrase, were refused
C5_Witness ==
    /\ DecodedCreated
    /\ ~OwnMode
    /\ dec[1].is_passphrase
    /\ dec[1].cred = OwnCredential
    /\ ~dec[1].result.ok

\* number of characters of the data string of a document of n bytes: the
\* unpadded base64 length of salt (passphrase mode only), nonce, compressed
\* frame and tag
STORED_HEADER == 5

ExpectedChars(n, pass) ==
    LET wire == (IF pass THEN 16 ELSE 0) + 12 + (STORED_HEADER + 9 + n) + 16
    IN  (4 * wire + 2) \div 3

\* C6: in both modes the encoder fails with PayloadTooLarge exactly when the
\* data string (salt included in passphrase mode) would be longer than 6000
\* characters; up to and including 6000 it succeeds, so a returned data
\* string has at most 6000 characters.
C6_SizeEnforcement ==
    IsSome(enc) =>
        /\ (enc[1].json # << >> /\ enc[1].rng[1] # RngFail
                /\ enc[1].rng[2] # RngFail)
           => LET n == ExpectedChars(Len(enc[1].json), OwnMode)
              IN  IF n > 6000
                  THEN enc[1].result = Err("PayloadTooLarge")
                  ELSE /\ enc[1].result.ok
                       /\ Len(enc[1].result.val.data) = n
        /\ enc[1].result.ok => Len(enc[1].result.val.data) <= 6000

\* C6 witness: a passphrase-mode data string of exactly 6000 characters
C6_Witness ==
    /\ IsSome(enc)
    /\ enc[1].result.ok
    /\ OwnMode
    /\ Len(enc[1].result.val.data) = 6000

\* C7: the encoder fails with EmptyInput whenever json is empty, whatever
\* the passphrase argument and before any other step (also when the random
\* source would fail).
C7_EmptyInput ==
    (IsSome(enc) /\ enc[1].json = << >>) => enc[1].result = Err("EmptyInput")

\* C7 witness: empty json, a passphrase and a failing random source
C7_Witness ==
    /\ IsSome(enc)
    /\ enc[1].json = << >>
    /\ enc[1].passphrase = Some(<< 112, 119 >>)
    /\ enc[1].rng = << RngFail, RngFail >>
    /\ enc[1].result = Err("EmptyInput")

\* version byte of the frame inside the payload of the last encoder call,
\* opened with key (-1 if it does not open)
FrameVersion(ciphertext, key) ==
    LET plain == decrypt_payload(ciphertext, key)
    IN  IF ~plain.ok THEN -1
        ELSE LET frame == decompress_raw(plain.val)
             IN  IF ~frame.ok \/ frame.val = << >> THEN -1 ELSE frame.val[1]

\* C8: the encoder uses passphrase mode (frame version 0x02, key None)
\* exactly when a non-empty passphrase is supplied; with no passphrase or an
\* empty one it uses random-key mode (frame version 0x01) and returns
\* key = Some(k), k the base64url form of the 32-byte key that encrypted
\* data.
C8_ModeSelection ==
    (IsSome(enc) /\ enc[1].result.ok) =>
        LET raw == decode_base64url(enc[1].result.val.data).val
            key == enc[1].result.val.key
        IN  IF NonEmptyPassphrase(enc[1].passphrase)
            THEN /\ key = None
                 /\ FrameVersion(Drop(raw, 16),
                        pbkdf2_hmac(enc[1].passphrase[1], Take(raw, 16))) = 2
            ELSE /\ IsSome(key)
                 /\ WellFormedKey(key[1])
                 /\ FrameVersion(raw, decode_base64url(key[1]).val) = 1

\* C8 witness: an empty passphrase gave a random-key payload with its key
C8_Witness ==
    /\ IsSome(enc)
    /\ enc[1].passphrase = Some(<< >>)
    /\ enc[1].result.ok
    /\ IsSome(enc[1].result.val.key)

\* C9: decoding fails with InvalidBase64 whenever data is not valid unpadded
\* base64url, for every credential and both values of is_passphrase.
C9_InvalidBase64 ==
    (IsSome(dec) /\ dec[1].data \in MalformedData)
        => dec[1].result = Err("InvalidBase64")

\* C9 witness: padded data "QQ==" refused in passphrase mode
C9_Witness ==
    /\ IsSome(dec)
    /\ dec[1].data = << 81, 81, 61, 61 >>
    /\ dec[1].is_passphrase
    /\ dec[1].result = Err("InvalidBase64")

\* the last decoder call was made on the link with its credential and mode
DecodedLinkWithOwn ==
    /\ IsSome(link) /\ IsSome(dec)
    /\ dec[1].data = link[1].data
    /\ dec[1].cred = link[1].cred
    /\ dec[1].is_passphrase = link[1].pass

\* C10: on the decode path decrypted bytes that are not a valid DEFLATE
\* stream give InvalidPayload, and the decoder never returns
\* CompressionFailed.
C10_DecodeNeverCompressionFailed ==
    /\ (DecodedLinkWithOwn /\ ~Inflate(link[1].plain).ok)
           => dec[1].result = Err("InvalidPayload")
    /\ IsSome(dec) => dec[1].result # Err("CompressionFailed")

\* C11: decompress_raw reads chunks of at most 8192 bytes; it fails with
\* InvalidPayload as soon as the accumulated output exceeds 10 MiB (the
\* length before the last chunk was still within the limit); it returns
\* success only with at most 10 MiB of output, and a stream of exactly
\* 10 MiB is accepted; the buffer never holds more than 10 MiB plus one
\* chunk.
C11_DecompressionCap ==
    IsSome(rd) =>
        LET r == rd[1]
        IN  /\ r.n <= 8192
            /\ r.len <= 10485760 + 8192
            /\ (r.pc = "loop") => (r.len <= 10485760)
            /\ (r.pc = "InvalidPayload")
                  => (r.len > 10485760 /\ r.len - r.n <= 10485760)
            /\ (r.pc = "Ok") => (r.len <= 10485760 /\ r.len = r.total)
            /\ (r.pc \in {"Ok", "CompressionFailed"} /\ r.total > 10485760)
                  => FALSE
            /\ (r.pc # "loop" /\ r.total = 10485760 /\ ~r.fault)
                  => (r.pc = "Ok")

\* C11 witness: a stream of exactly 10 MiB was read to its end and accepted
C11_Witness ==
    /\ IsSome(rd)
    /\ rd[1].pc = "Ok"
    /\ rd[1].len = 10485760

\* a call stopped with the buffer at 10 MiB plus one full chunk
C11_PeakBuffer ==
    /\ IsSome(rd)
    /\ rd[1].pc = "InvalidPayload"
    /\ rd[1].len = 10485760 + 8192

\* C12: error_code is defined on each of the nine ShareError variants and
\* has exactly four results: Expired gives "expired"; InvalidPayload,
\* CompressionFailed, PayloadTooLarge and EmptyInput give "invalid_payload";
\* DecryptionFailed, EncryptionFailed and KeyDerivationFailed give
\* "decryption_failed"; InvalidBase64 gives "invalid_base64".
C12_ErrorCodeMapping ==
    (IsSome(call) /\ call[1].fn = "error_code") =>
        LET e == call[1].arg
            code == call[1].out
        IN  /\ e \in ShareError
            /\ Cardinality(ShareError) = 9
            /\ code \in {"expired", "invalid_payload", "decryption_failed",
                          "invalid_base64"}
            /\ (code = "expired") <=> (e = "Expired")
            /\ (code = "invalid_payload")
                  <=> (e \in {"InvalidPayload", "CompressionFailed",
                              "PayloadTooLarge", "EmptyInput"})
            /\ (code = "decryption_failed")
                  <=> (e \in {"DecryptionFailed", "EncryptionFailed",
                              "KeyDerivationFailed"})
            /\ (code = "invalid_base64") <=> (e = "InvalidBase64")

\* C12 witness: the code of EmptyInput was asked for and is
\* "invalid_payload"
C12_Witness ==
    /\ IsSome(call)
    /\ call[1].fn = "error_code"
    /\ call[1].arg = "EmptyInput"
    /\ call[1].out = "invalid_payload"

\* the last call of the decode export failed
JsDecodeFailed ==
    /\ IsSome(call) /\ call[1].fn = "js_decode_share_payload"
    /\ IsSome(dec) /\ ~dec[1].result.ok

\* C13: the decode export reports errorCode "wrong_passphrase" exactly when
\* the error of decode_share_payload is DecryptionFailed and is_passphrase is
\* true; in every other failure the errorCode is error_code() of the variant;
\* the error text is always the fixed message of the variant.
C13_PresentationRemap ==
    JsDecodeFailed =>
        LET e == dec[1].result.err
            out == call[1].out
            remapped == (e = "DecryptionFailed" /\ dec[1].is_passphrase)
        IN  /\ ~out.success
            /\ (out.errorCode = "wrong_passphrase") <=> remapped
            /\ ~remapped => (out.errorCode = error_code(e))
            /\ out.error = Display(e)
            /\ remapped
                  => (out.error
                        = "Unable to decrypt - the link may be corrupted")

\* C13 witness: a wrong passphrase in passphrase mode was reported as
\* "wrong_passphrase" with the message of DecryptionFailed
C13_Witness ==
    /\ JsDecodeFailed
    /\ dec[1].is_passphrase
    /\ dec[1].result = Err("DecryptionFailed")
    /\ call[1].out.errorCode = "wrong_passphrase"
    /\ call[1].out.error = "Unable to decrypt - the link may be corrupted"

\* a wrong key in random-key mode keeps the code "decryption_failed"
C13_KeyModeNotRemapped ==
    /\ JsDecodeFailed
    /\ ~dec[1].is_passphrase
    /\ dec[1].result = Err("DecryptionFailed")
    /\ call[1].out.errorCode = "decryption_failed"

\* r is a complete success value with the given fields, or one ShareError
TotalResult(r, fields) ==
    IF r.ok THEN DOMAIN r = {"ok", "val"} /\ DOMAIN r.val = fields
    ELSE DOMAIN r = {"ok", "err"} /\ r.err \in ShareError

\* C14: every call of create_share_payload and of decode_share_payload, on
\* malformed, truncated and crafted data and on any credential, returns
\* either a complete success value or exactly one ShareError; no call
\* panics.
C14_Totality ==
    /\ IsSome(enc) => /\ TotalResult(enc[1].result, {"data", "key"})
                      /\ enc[1].result # Panic
    /\ IsSome(dec) => /\ TotalResult(dec[1].result,
                                      {"json", "created_at", "mode"})
                      /\ dec[1].result # Panic

\* C14 witness: a blob of 5 bytes, as in test_truncated_data, was presented
\* with a well-formed key in random-key mode and refused with a ShareError
C14_Witness ==
    /\ IsSome(dec)
    /\ ~dec[1].is_passphrase
    /\ WellFormedKey(dec[1].cred)
    /\ decode_base64url(dec[1].data).ok
    /\ Len(decode_base64url(dec[1].data).val) = 5
    /\ dec[1].result = Err("InvalidPayload")

\* both of two consecutive encoder calls with the same arguments succeeded
CreatedTwice ==
    /\ IsSome(prev) /\ prev[1].result.ok
    /\ IsSome(enc) /\ enc[1].result.ok
    /\ prev[1].json = enc[1].json
    /\ prev[1].passphrase = enc[1].passphrase

\* the nonce inside a data string made in the given mode
NonceOf(data, pass) ==
    LET raw == decode_base64url(data).val
        skip == IF pass THEN SALT_LENGTH ELSE 0
    IN  SubSeq(raw, skip + 1, skip + NONCE_LENGTH)

\* C15: two encoder calls with the same plaintext (and the same passphrase,
\* if any) return different data strings, and the nonces inside them differ.
C15_NonceUniqueness ==
    CreatedTwice =>
        /\ prev[1].result.val.data # enc[1].result.val.data
        /\ NonceOf(prev[1].result.val.data, OwnMode)
              # NonceOf(enc[1].result.val.data, OwnMode)

\* C15 witness: the same document was shared twice with the same passphrase
\* at the same clock reading, and the data strings differ
C15_Witness ==
    /\ CreatedTwice
    /\ enc[1].passphrase = Some(<< 112, 119 >>)
    /\ prev[1].clock = enc[1].clock
    /\ prev[1].result.val.data # enc[1].result.val.data

\* the frame inside the payload of the last encoder call, opened with the
\* key that belongs to it
OpenedFrame ==
    LET raw == decode_base64url(enc[1].result.val.data).val
        plain == IF OwnMode
                 THEN decrypt_payload(Drop(raw, SALT_LENGTH),
                          pbkdf2_hmac(OwnCredential, Take(raw, SALT_LENGTH)))
                 ELSE decrypt_payload(raw, decode_base64url(OwnCredential).val)
    IN  decompress_raw(plain.val).val

\* the 8 bytes of a clock reading below 2^32, most significant first
BigEndian8(n) ==
    << 0, 0, 0, 0, n \div 16777216, (n \div 65536) % 256, (n \div 256) % 256,
       n % 256 >>

\* C16: the payload of a successful encoder call frames the version byte,
\* the one clock reading of the call as 8 big-endian bytes, and the JSON
\* bytes; every successful decode of it returns created_at equal to that
\* clock reading, and mode "quick" when the frame version is 0x01 and
\* "protected" otherwise.
C16_TimestampModeFidelity ==
    (IsSome(enc) /\ enc[1].result.ok) =>
        /\ OpenedFrame
              = << IF OwnMode THEN 2 ELSE 1 >>
                  \o BigEndian8(U64ToNat(enc[1].clock)) \o enc[1].json
        /\ (DecodedCreated /\ dec[1].result.ok) =>
              /\ dec[1].result.val.created_at = enc[1].clock
              /\ dec[1].result.val.mode
                    = IF OpenedFrame[1] = 1 THEN "quick" ELSE "protected"

\* C16 witness: a payload made at T0 + 299 was decoded later and reports
\* the clock reading of the encoder call, not of the decoder call
C16_Witness ==
    /\ DecodedCreated
    /\ dec[1].result.ok
    /\ U64ToNat(enc[1].clock) = T0 + 299
    /\ dec[1].clock # enc[1].clock
    /\ dec[1].result.val.created_at = enc[1].clock
    /\ dec[1].result.val.mode = "protected"

\* the last decoder call was made in random-key mode on data that is valid
\* base64url
DecodedKeyMode ==
    /\ IsSome(dec)
    /\ ~dec[1].is_passphrase
    /\ B64WellFormed(dec[1].data)

\* C17 (as amended): when is_passphrase is false and data is valid
\* base64url, decoding fails with InvalidBase64 when key_or_passphrase is not
\* valid base64url, and with InvalidPayload when it is valid base64url of a
\* number of bytes other than 32.
C17_KeyValidation ==
    DecodedKeyMode =>
        LET key == dec[1].cred
        IN  /\ ~B64WellFormed(key) => dec[1].result = Err("InvalidBase64")
            /\ (B64WellFormed(key) /\ B64DecodedLen(Len(key)) # 32)
                  => dec[1].result = Err("InvalidPayload")

\* C17 witness: the key "" decodes to no bytes and was refused with
\* InvalidPayload
C17_Witness ==
    /\ DecodedKeyMode
    /\ IsSome(link)
    /\ dec[1].cred = << >>
    /\ dec[1].result = Err("InvalidPayload")

\* C17 as stated: InvalidPayload whenever the key does not decode to
\* exactly 32 bytes, also when it does not decode at all
C17_Original ==
    (DecodedKeyMode
        /\ ~(B64WellFormed(dec[1].cred)
               /\ B64DecodedLen(Len(dec[1].cred)) = 32))
        => dec[1].result = Err("InvalidPayload")

\* number of bytes the data of the last decoder call decodes to (-1 when it
\* is not base64url)
DecodedBlobLen ==
    IF B64WellFormed(dec[1].data) THEN B64DecodedLen(Len(dec[1].data)) ELSE -1

\* C18: in passphrase mode a decoded blob of fewer than 16 + 12 + 1 = 29
\* bytes fails with InvalidPayload; in random-key mode with a well-formed
\* 32-byte key a decoded blob of fewer than 12 + 1 = 13 bytes fails with
\* InvalidPayload; the result is neither DecryptionFailed nor a success.
C18_MinimumBlobLength ==
    (IsSome(dec) /\ DecodedBlobLen >= 0) =>
        /\ (dec[1].is_passphrase /\ DecodedBlobLen < 29)
              => dec[1].result = Err("InvalidPayload")
        /\ (~dec[1].is_passphrase
                /\ B64WellFormed(dec[1].cred)
                /\ B64DecodedLen(Len(dec[1].cred)) = 32
                /\ DecodedBlobLen < 13)
              => dec[1].result = Err("InvalidPayload")

\* C18 witness: 28 bytes in passphrase mode were refused with InvalidPayload
C18_Witness ==
    /\ IsSome(dec)
    /\ dec[1].is_passphrase
    /\ DecodedBlobLen = 28
    /\ dec[1].result = Err("InvalidPayload")

\* 12 bytes with a well-formed key were refused with InvalidPayload, 13
\* bytes reach the cipher
C18_KeyModeBoundary ==
    /\ IsSome(dec)
    /\ ~dec[1].is_passphrase
    /\ DecodedBlobLen = 13
    /\ dec[1].result = Err("DecryptionFailed")

\* the frame of the link, when its plaintext decompresses
LinkFrame == Inflate(link[1].plain)

\* version implied by the mode argument of the last decoder call
ExpectedVersion == IF dec[1].is_passphrase THEN 2 ELSE 1

\* C19: when decryption and decompression succeed, decoding fails with
\* InvalidPayload if the frame has fewer than 9 bytes, and fails with
\* InvalidPayload if the version byte of the frame differs from the version
\* implied by is_passphrase (0x02 when true, 0x01 when false); a success
\* always has a version byte that matches the mode argument.
C19_HeaderVersionCheck ==
    (DecodedLinkWithOwn /\ LinkFrame.ok) =>
        LET frame == LinkFrame.val
        IN  /\ Len(frame) < 9 => dec[1].result = Err("InvalidPayload")
            /\ (Len(frame) >= 9 /\ frame[1] # ExpectedVersion)
                  => dec[1].result = Err("InvalidPayload")
            /\ dec[1].result.ok
                  => (Len(frame) >= 9 /\ frame[1] = ExpectedVersion)

\* C19 witness: an authentic, unexpired frame with version 0x01 was
\* presented in passphrase mode and refused with InvalidPayload
C19_Witness ==
    /\ DecodedLinkWithOwn
    /\ LinkFrame.ok
    /\ dec[1].is_passphrase
    /\ LinkFrame.val = Frame(1, U64(T0), << 49 >>)
    /\ dec[1].result = Err("InvalidPayload")

\* a frame of three bytes was refused with InvalidPayload
C19_ShortFrame ==
    /\ DecodedLinkWithOwn
    /\ LinkFrame.ok
    /\ Len(LinkFrame.val) = 3
    /\ dec[1].result = Err("InvalidPayload")

\* a character of the unpadded URL-safe alphabet: A-Z, a-z, 0-9, '-', '_'
UrlSafeChar(c) ==
    \/ c >= 65 /\ c <= 90
    \/ c >= 97 /\ c <= 122
    \/ c >= 48 /\ c <= 57
    \/ c = 45
    \/ c = 95

\* C20: decode_base64url(encode_base64url(b)) returns b for every byte
\* string b; encode_base64url(b) contains none of '=', '+', '/';
\* decode_base64url returns InvalidBase64 for every string with a character
\* outside the unpadded URL-safe alphabet.
C20_Base64Codec ==
    IsSome(call) =>
        LET c == call[1]
        IN  /\ (c.fn = "roundtrip") => (c.out = Ok(c.arg))
            /\ (c.fn = "encode_base64url")
                  => \A i \in 1..Len(c.out) : c.out[i] \notin {61, 43, 47}
            /\ (c.fn = "decode_base64url"
                    /\ \E i \in 1..Len(c.arg) : ~UrlSafeChar(c.arg[i]))
                  => (c.out = Err("InvalidBase64"))

\* C20 witness: the bytes FB FF, whose standard encoding has '+' and '/',
\* came back from the round trip
C20_Witness ==
    /\ IsSome(call)
    /\ call[1].fn = "roundtrip"
    /\ call[1].arg = << 251, 255 >>
    /\ call[1].out = Ok(<< 251, 255 >>)

\* the padded text "A=" was refused
C20_PaddingRefused ==
    /\ IsSome(call)
    /\ call[1].fn = "decode_base64url"
    /\ call[1].arg = << 65, 61 >>
    /\ call[1].out = Err("InvalidBase64")

\* the result of the call of a thread when the call runs alone and is given
\* the clock reading and the draws the thread's call was given
RunAlone(c) ==
    LET reading == IF IsSome(c.clock) THEN c.clock[1] ELSE U64(0)
        rng == c.draws \o << RngFail, RngFail >>
    IN  IF c.op = "create"
        THEN create_share_payload(c.json, c.passphrase, reading, rng)
        ELSE decode_share_payload(c.data, c.cred, c.is_passphrase, reading)

\* C21: create and decode calls that run on separate threads with their
\* steps interleaved each return what the same call returns when it runs
\* alone with the same clock reading and the same draws, and the frame a
\* call has compressed is at every moment the one it compressed itself: no
\* call reads or writes a binding of another call.
C21_CallIndependence ==
    \A t \in Threads :
        LET c == thr[t]
        IN  /\ c.pc = "done" => c.result = Some(RunAlone(c))
            /\ c.pc \in {"key", "encrypt"} =>
                   c.buf = Deflate(<< IF c.is_passphrase
                                       THEN VERSION_PASSPHRASE
                                       ELSE VERSION_RANDOM_KEY >>
                                   \o BigEndian8(U64ToNat(c.clock[1]))
                                   \o c.json)

\* two calls have finished whose draws alternated and whose clock readings
\* differ: their steps were interleaved
C21_Witness ==
    /\ thr[1].pc = "done" /\ thr[2].pc = "done"
    /\ thr[1].op = "create" /\ thr[1].draws = << 1, 3 >>
    /\ thr[2].op = "create" /\ thr[2].draws = << 2, 4 >>
    /\ thr[1].clock # thr[2].clock
    /\ thr[1].result[1].ok /\ thr[2].result[1].ok

\* a decoder call that opened its frame before an encoder call on the other
\* thread started, and read the clock after that call had finished
C21_DecodeAcrossCreate ==
    /\ thr[1].pc = "done" /\ thr[1].op = "decode" /\ IsSome(thr[1].clock)
    /\ thr[2].pc = "done" /\ thr[2].op = "create" /\ IsSome(thr[2].clock)
    /\ U64Less(thr[2].clock[1], thr[1].clock[1])
    /\ thr[1].result[1] = Err("Expired")

\* the JSON bytes of the frame of the link: what follows the 9-byte header
LinkJsonBytes == Drop(LinkFrame.val, 9)

\* C22: the UTF-8 check comes before the version check and the expiration
\* check: an authentic frame of at least 9 bytes whose JSON bytes are not
\* valid UTF-8 is refused with InvalidPayload, also when its timestamp is
\* more than 300 seconds old.
C22_Utf8BeforeExpiry ==
    (DecodedLinkWithOwn /\ LinkFrame.ok /\ Len(LinkFrame.val) >= 9
          /\ ~IsValidUtf8(LinkJsonBytes))
        => dec[1].result = Err("InvalidPayload")

\* the frame (version 1, timestamp T0, JSON bytes C3) was decoded in
\* random-key mode 301 seconds later and the call returned Expired
C22_ExpiredReportedFirst ==
    /\ DecodedLinkWithOwn
    /\ LinkFrame.ok
    /\ LinkFrame.val = Frame(1, U64(T0), << 195 >>)
    /\ ~dec[1].is_passphrase
    /\ dec[1].clock = U64(T0 + 301)
    /\ dec[1].result = Err("Expired")

\* seconds from the timestamp of a frame to a clock reading, 0 when the
\* timestamp is not in the past
FrameAge(frame, clock) ==
    LET stamp == [i \in 1..8 |-> frame[i + 1]]
        high == stamp[1] + stamp[2] + stamp[3] + stamp[4]
        low == ((stamp[5] * 256 + stamp[6]) * 256 + stamp[7]) * 256 + stamp[8]
    IN  IF high = 0 /\ low < U64ToNat(clock) THEN U64ToNat(clock) - low ELSE 0

\* The stages in the order of the claim, each with the error it ends the call
\* with: the first stage that fails on the arguments of the last decoder
\* call, "none" when none of them fails.  A link is opened by its own
\* credential in its own mode and by nothing else.
FirstFailingStage ==
    LET d == dec[1].data
        c == dec[1].cred
        p == dec[1].is_passphrase
        blob == B64DecodedLen(Len(d))
    IN  IF ~B64WellFormed(d) THEN Err("InvalidBase64")
        ELSE IF p /\ blob < SALT_LENGTH + NONCE_LENGTH + 1
        THEN Err("InvalidPayload")
        ELSE IF ~p /\ ~B64WellFormed(c) THEN Err("InvalidBase64")
        ELSE IF ~p /\ B64DecodedLen(Len(c)) # KEY_LENGTH
        THEN Err("InvalidPayload")
        ELSE IF ~p /\ blob < NONCE_LENGTH + 1 THEN Err("InvalidPayload")
        ELSE IF ~DecodedLinkWithOwn THEN Err("DecryptionFailed")
        ELSE IF ~LinkFrame.ok THEN decompress_raw(link[1].plain)
        ELSE IF Len(LinkFrame.val) < HEADER_LENGTH THEN Err("InvalidPayload")
        ELSE IF LinkFrame.val[1] # ExpectedVersion THEN Err("InvalidPayload")
        ELSE IF FrameAge(LinkFrame.val, dec[1].clock) > EXPIRATION_SECS
        THEN Err("Expired")
        ELSE Ok("none")

\* C23: the decoder runs its stages in the order base64url decoding of data,
\* credential handling and layout split, AEAD decryption, decompression,
\* header parse, version check, expiration check; on an input with several
\* defects the call returns the error of the earliest stage that fails,
\* unchanged, and when none of these stages fails the call returns neither
\* InvalidBase64, DecryptionFailed, CompressionFailed nor Expired.
C23_StageOrder ==
    IsSome(dec) =>
        IF FirstFailingStage.ok
        THEN dec[1].result.ok \/ dec[1].result = Err("InvalidPayload")
        ELSE dec[1].result = FirstFailingStage

\* C23 witness: an authentic frame with version byte 0x01 and timestamp 0,
\* presented in passphrase mode: the version is wrong and the timestamp is
\* expired, and the call returned InvalidPayload
C23_Witness ==
    /\ DecodedLinkWithOwn
    /\ LinkFrame.ok
    /\ LinkFrame.val = Frame(1, U64(0), << 49 >>)
    /\ dec[1].is_passphrase
    /\ dec[1].result = Err("InvalidPayload")

\* the last call was validate_timestamp
ValidatedTimestamp ==
    IsSome(call) /\ call[1].fn = "validate_timestamp"

\* C24: the age computation never underflows: the age is a u64, it is the
\* difference when created_at is before the clock reading, and when
\* created_at is greater than or equal to the clock reading the age is 0 and
\* the expiration check passes, for every u64 value of created_at.
C24_SaturatingAge ==
    ValidatedTimestamp =>
        LET created_at == call[1].arg[1]
            clock == call[1].arg[2]
            age == call[1].out.age
        IN  /\ \A i \in 1..4 : age[i] \in 0..65535
            /\ (U64Less(created_at, clock) /\ created_at[3] < 32768)
                  => (/\ age[1] = 0 /\ age[2] = 0
                      /\ U64ToNat(age) = U64ToNat(clock) - U64ToNat(created_at))
            /\ ~U64Less(created_at, clock)
                  => (/\ age = << 0, 0, 0, 0 >>
                      /\ call[1].out.result = Ok(TRUE))

\* C24 witness: created_at = u64::MAX, far in the future of the clock
\* reading: the age was 0 and the check passed
C24_Witness ==
    /\ ValidatedTimestamp
    /\ call[1].arg[1] = U64_MAX
    /\ call[1].out.age = << 0, 0, 0, 0 >>
    /\ call[1].out.result = Ok(TRUE)

\* created_at one second after the clock reading
C24_OneSecondAhead ==
    /\ ValidatedTimestamp
    /\ call[1].arg[1] = U64(T0 + 1)
    /\ call[1].arg[2] = U64(T0)
    /\ call[1].out.result = Ok(TRUE)

\* the last encoder call returned a payload
Created == IsSome(enc) /\ enc[1].result.ok

\* C25: the bytes encoded in data are nonce(12) and ciphertext-with-tag in
\* random-key mode, and salt(16), nonce(12) and ciphertext-with-tag in
\* passphrase mode; the decoder cuts at the same offsets, so the salt it
\* derives the key from and the nonce it decrypts with are the ones the
\* encoder drew, and the payload opens with its own credential.
C25_WireLayout ==
    Created =>
        LET raw == decode_base64url(enc[1].result.val.data).val
            salt == IF OwnMode THEN RandomBytes(SALT_LENGTH, enc[1].rng[1])
                               ELSE << >>
            nonce == RandomBytes(NONCE_LENGTH, enc[1].rng[2])
            key == IF OwnMode THEN pbkdf2_hmac(enc[1].passphrase[1], salt)
                              ELSE RandomBytes(KEY_LENGTH, enc[1].rng[1])
            parts == decoder_split(raw, OwnMode)
        IN  /\ raw = salt \o nonce
                       \o Aes256Gcm_encrypt(key, nonce, link[1].plain)
            /\ parts.ok
            /\ parts.val.salt = salt
            /\ parts.val.nonce = nonce
            /\ Len(parts.val.encrypted) = Len(link[1].plain) + TAG_LENGTH
            /\ DecodedWithOwn =>
                  (dec[1].result.ok \/ dec[1].result = Err("Expired"))

\* C25 witness: a passphrase payload whose salt and nonce came from
\* different draws was decoded with its passphrase
C25_Witness ==
    /\ DecodedWithOwn
    /\ OwnMode
    /\ enc[1].rng = << 1, 2 >>
    /\ dec[1].result.ok

\* the last decoder call was made on the created payload with the other
\* value of is_passphrase
ModeConfused == DecodedCreated /\ dec[1].is_passphrase # OwnMode

\* C26 (as stated): decoding a random-key payload with is_passphrase = true,
\* or a passphrase payload with is_passphrase = false, fails with
\* InvalidPayload.
C26_Original ==
    ModeConfused => dec[1].result = Err("InvalidPayload")

\* C26 (as amended): mode confusion is reported as an error, never as a
\* success: a random-key payload decoded with is_passphrase = true fails with
\* DecryptionFailed, and a passphrase payload decoded with is_passphrase =
\* false fails with InvalidBase64 when the supplied credential is not
\* base64url, with InvalidPayload when it does not decode to 32 bytes, and
\* with DecryptionFailed when it is a well-formed key.
C26_ModeConfusionError ==
    ModeConfused =>
        IF dec[1].is_passphrase
        THEN dec[1].result = Err("DecryptionFailed")
        ELSE IF ~B64WellFormed(dec[1].cred)
        THEN dec[1].result = Err("InvalidBase64")
        ELSE IF B64DecodedLen(Len(dec[1].cred)) # KEY_LENGTH
        THEN dec[1].result = Err("InvalidPayload")
        ELSE dec[1].result = Err("DecryptionFailed")

\* C26 witness: a random-key payload presented with a passphrase, as in
\* test_mode_mismatch_key_as_passphrase, was refused with DecryptionFailed
C26_Witness ==
    /\ ModeConfused
    /\ dec[1].is_passphrase
    /\ dec[1].cred = << 112, 119 >>
    /\ dec[1].result = Err("DecryptionFailed")

\* a passphrase payload presented with a well-formed key in random-key mode
\* was refused with DecryptionFailed
C26_PassphrasePayloadAsKey ==
    /\ ModeConfused
    /\ ~dec[1].is_passphrase
    /\ WellFormedKey(dec[1].cred)
    /\ dec[1].result = Err("DecryptionFailed")

\* the last two decoder calls kept were both made on the created payload
\* with its credential and mode, prev before dec
DecodedTwiceWithOwn ==
    /\ DecodedWithOwn
    /\ IsSome(prev)
    /\ prev[1].data = dec[1].data
    /\ prev[1].cred = dec[1].cred
    /\ prev[1].is_passphrase = dec[1].is_passphrase

C27_SameResultInWindow ==
    /\ DecodedTwiceWithOwn
    /\ prev[1].clock = U64(T0)
    /\ dec[1].clock = U64(T0 + 300)
    /\ dec[1].result.ok
    /\ prev[1].result = dec[1].result

C28_SameCallTwice ==
    /\ DecodedTwiceWithOwn
    /\ prev[1].clock = dec[1].clock
    /\ prev[1].result = dec[1].result
    /\ dec[1].result.ok

EncoderErrors ==
    {"EmptyInput", "CompressionFailed", "EncryptionFailed", "PayloadTooLarge"}

\* C29: a failing create_share_payload call returns EmptyInput,
\* CompressionFailed, EncryptionFailed or PayloadTooLarge and no other error;
\* a failure of the random source while the salt is drawn is reported as
\* EncryptionFailed; and neither the encoder nor the decoder ever returns
\* KeyDerivationFailed.
C29_EncoderErrors ==
    /\ (IsSome(enc) /\ ~enc[1].result.ok)
          => enc[1].result.err \in EncoderErrors
    /\ (/\ IsSome(enc)
        /\ enc[1].json # << >>
        /\ NonEmptyPassphrase(enc[1].passphrase)
        /\ enc[1].rng[1] = RngFail)
          => enc[1].result = Err("EncryptionFailed")
    /\ IsSome(dec) => dec[1].result # Err("KeyDerivationFailed")

\* C29 witness: a passphrase-mode call whose salt draw failed returned
\* EncryptionFailed
C29_Witness ==
    /\ IsSome(enc)
    /\ enc[1].json # << >>
    /\ NonEmptyPassphrase(enc[1].passphrase)
    /\ enc[1].rng = << RngFail, RngFail >>
    /\ enc[1].result = Err("EncryptionFailed")

\* C30: an authentic frame of exactly 9 bytes, the version byte and the
\* timestamp with no JSON after them, whose version matches the mode and
\* whose timestamp is not expired, decodes successfully with json equal to
\* the empty string and created_at equal to its timestamp; no payload that
\* create_share_payload returned carries such a frame: its frames are longer
\* than 9 bytes.
C30_EmptyBodyDecodes ==
    /\ (/\ DecodedLinkWithOwn
        /\ LinkFrame.ok
        /\ Len(LinkFrame.val) = HEADER_LENGTH
        /\ LinkFrame.val[1] = ExpectedVersion
        /\ FrameAge(LinkFrame.val, dec[1].clock) <= EXPIRATION_SECS)
          => /\ dec[1].result.ok
             /\ dec[1].result.val.json = << >>
             /\ to_be_bytes(dec[1].result.val.created_at)
                    = Drop(LinkFrame.val, 1)
    /\ (IsSome(link) /\ link[1].origin = "created")
          => (LinkFrame.ok /\ Len(LinkFrame.val) > HEADER_LENGTH)

\* C30 witness: the crafted frame (version 0x02, timestamp T0, no JSON) was
\* decoded in passphrase mode and gave the empty string
C30_Witness ==
    /\ DecodedLinkWithOwn
    /\ LinkFrame.ok
    /\ LinkFrame.val = Frame(2, U64(T0), << >>)
    /\ dec[1].is_passphrase
    /\ dec[1].result.ok
    /\ dec[1].result.val.json = << >>

\* a payload the encoder returned was decoded: its frame has a JSON body
C30_CreatedFrameHasBody ==
    /\ DecodedLinkWithOwn
    /\ link[1].origin = "created"
    /\ Len(LinkFrame.val) > HEADER_LENGTH
    /\ dec[1].result.ok

====
